---- MODULE Spec2Model ----
(***************************************************************************)
(* Model of the price knowledge base of LE-pricer (src/db.py): the store   *)
(* PriceDB with its known entries, display order, pending list and price   *)
(* file, the fuzzy lookup find_best and the write-to-temp-then-replace     *)
(* persistence.                                                            *)
(*                                                                         *)
(* Strings are sequences of characters.  A character is a short ASCII      *)
(* token: "a", "b", "v", "o" are Latin small letters, "A", "B" are Latin   *)
(* capitals, "cy_ve" / "CY_VE" are the Cyrillic small / capital letter    *)
(* VE (U+0432 / U+0412), " " is a space, "!" a punctuation mark, "1", "5", *)
(* "7" digits, "," and "." the decimal separators.                         *)
(* An optional value (Python None or a value) is <<>> or <<value>>.        *)
(* A float is an integer number of tenths (15 is 1.5).                     *)
(***************************************************************************)
EXTENDS Integers, Sequences, FiniteSets, TLC

None == <<>>

Some(v) == <<v>>

IsNone(o) == o = <<>>

Val(o) == o[1]

Max2(a, b) == IF a >= b THEN a ELSE b

\* ------------------------------------------------------------------------
\* Characters

LatinLower == {"a", "b", "v", "o"}

Digits == {"1", "5", "7"}

CyrLower == {"cy_ve"}

\* str.lower() on one character
LowerChar(c) ==
    CASE c = "A" -> "a"
      [] c = "B" -> "b"
      [] c = "CY_VE" -> "cy_ve"
      [] OTHER -> c

RECURSIVE Lower(_)
Lower(s) == IF s = <<>> THEN <<>> ELSE <<LowerChar(Head(s))>> \o Lower(Tail(s))

RECURSIVE LStrip(_)
LStrip(s) == IF s # <<>> /\ Head(s) = " " THEN LStrip(Tail(s)) ELSE s

RECURSIVE RStrip(_)
RStrip(s) ==
    IF s # <<>> /\ s[Len(s)] = " " THEN RStrip(SubSeq(s, 1, Len(s) - 1)) ELSE s

\* str.strip()
Strip(s) == RStrip(LStrip(s))

\* _norm: (name or "").strip().lower()
Norm(name) == Lower(Strip(name))

\* _SHAPE_MAP on one character: look-alike glyphs and digit confusions
ShapeChar(c) ==
    CASE c = "CY_VE" -> "B"
      [] c = "cy_ve" -> "b"
      [] OTHER -> c

RECURSIVE Translate(_)
Translate(s) ==
    IF s = <<>> THEN <<>> ELSE <<ShapeChar(Head(s))>> \o Translate(Tail(s))

\* _shape_fold: strip, translate through _SHAPE_MAP, lower
ShapeFold(s) == Lower(Translate(Strip(s)))

\* re.sub(r"[^0-9a-z<cyrillic a-ya> ]+", " ", s) followed by
\* re.sub(r"\s+", " ", s): every run of other characters or spaces becomes
\* one space
IsWordChar(c) == c \in LatinLower \cup Digits \cup CyrLower

RECURSIVE Collapse(_, _)
Collapse(s, inGap) ==
    IF s = <<>> THEN <<>>
    ELSE IF IsWordChar(Head(s)) THEN <<Head(s)>> \o Collapse(Tail(s), FALSE)
    ELSE IF inGap THEN Collapse(Tail(s), TRUE)
    ELSE <<" ">> \o Collapse(Tail(s), TRUE)

\* _clean_for_match
CleanForMatch(s) == Strip(Collapse(Lower(s), FALSE))

\* _RU2LAT on one character (a character outside the table is kept)
Ru2Lat(c) ==
    CASE c = "cy_ve" -> <<"v">>
      [] OTHER -> <<c>>

RECURSIVE TranslitLowered(_)
TranslitLowered(s) ==
    IF s = <<>> THEN <<>> ELSE Ru2Lat(Head(s)) \o TranslitLowered(Tail(s))

\* _translit_ru_to_lat
TranslitRuToLat(s) == TranslitLowered(Lower(s))

\* ------------------------------------------------------------------------
\* rapidfuzz.fuzz as called by find_best.  A score is an integer number of
\* hundredths of a point (10000 is the score 100.0), which orders the
\* ratios of strings of the lengths used here exactly.

ScoreUnit == 100

\* Unicode code point, the order sorted() uses
CharCode(c) ==
    CASE c = " " -> 32 [] c = "!" -> 33 [] c = "," -> 44 [] c = "." -> 46
      [] c = "1" -> 49 [] c = "5" -> 53 [] c = "7" -> 55
      [] c = "A" -> 65 [] c = "B" -> 66
      [] c = "a" -> 97 [] c = "b" -> 98 [] c = "o" -> 111 [] c = "v" -> 118
      [] c = "CY_VE" -> 1042 [] c = "cy_ve" -> 1074

\* length of the longest common subsequence
LCSLen(a, b) ==
    LET f[i \in 0..Len(a), j \in 0..Len(b)] ==
            IF i = 0 \/ j = 0 THEN 0
            ELSE IF a[i] = b[j] THEN f[i - 1, j - 1] + 1
            ELSE Max2(f[i - 1, j], f[i, j - 1])
    IN f[Len(a), Len(b)]

\* Indel distance
IndelDistance(a, b) == Len(a) + Len(b) - 2 * LCSLen(a, b)

\* 100 - 100 * dist / lensum
NormDistance(dist, lensum) ==
    IF lensum = 0 THEN 100 * ScoreUnit
    ELSE 100 * ScoreUnit - (100 * ScoreUnit * dist) \div lensum

\* fuzz.ratio
Ratio(a, b) == NormDistance(IndelDistance(a, b), Len(a) + Len(b))

SetMax(S) == CHOOSE x \in S : \A y \in S : y <= x

\* the alignments of the shorter string s1 inside s2 that partial_ratio
\* scores: the prefixes of s2 shorter than s1, the windows of the length of
\* s1, and the suffixes of s2 shorter than s1
PartialWindows(s1, s2) ==
    {SubSeq(s2, 1, i) : i \in 1..(Len(s1) - 1)}
    \cup {SubSeq(s2, i, i + Len(s1) - 1) : i \in 1..(Len(s2) - Len(s1) + 1)}
    \cup {SubSeq(s2, i, Len(s2)) : i \in (Len(s2) - Len(s1) + 2)..Len(s2)}

PartialRatioImpl(s1, s2) ==
    SetMax({0} \cup {Ratio(s1, w) : w \in PartialWindows(s1, s2)})

\* fuzz.partial_ratio: the shorter string is aligned inside the longer one;
\* strings of equal length are aligned both ways
PartialRatio(a, b) ==
    IF a = <<>> /\ b = <<>> THEN 100 * ScoreUnit
    ELSE IF a = <<>> \/ b = <<>> THEN 0
    ELSE SetMax({PartialRatioImpl(p[1], p[2]) :
                    p \in {q \in {<<a, b>>, <<b, a>>} : Len(q[1]) <= Len(q[2])}})

\* str.split(): the maximal runs of non-space characters, in order
RECURSIVE SplitFrom(_, _)
SplitFrom(s, cur) ==
    IF s = <<>> THEN (IF cur = <<>> THEN <<>> ELSE <<cur>>)
    ELSE IF Head(s) = " "
         THEN (IF cur = <<>> THEN <<>> ELSE <<cur>>) \o SplitFrom(Tail(s), <<>>)
    ELSE SplitFrom(Tail(s), Append(cur, Head(s)))

Split(s) == SplitFrom(s, <<>>)

SeqToSet(q) == {q[i] : i \in DOMAIN q}

\* lexicographic order of strings by code point
RECURSIVE StrLess(_, _)
StrLess(a, b) ==
    IF b = <<>> THEN FALSE
    ELSE IF a = <<>> THEN TRUE
    ELSE IF Head(a) # Head(b) THEN CharCode(Head(a)) < CharCode(Head(b))
    ELSE StrLess(Tail(a), Tail(b))

\* " ".join(sorted(tokens))
RECURSIVE JoinSorted(_)
JoinSorted(T) ==
    IF T = {} THEN <<>>
    ELSE LET m == CHOOSE x \in T : \A y \in T \ {x} : StrLess(x, y)
             rest == JoinSorted(T \ {m})
         IN IF rest = <<>> THEN m ELSE m \o <<" ">> \o rest

\* token_set_ratio on the joined strings: sect_len is the length of the
\* joined common tokens, diff_ab and diff_ba the joined tokens of one string
\* only
TokenSetJoined(sect_len, diff_ab, diff_ba) ==
    LET gap == IF sect_len # 0 THEN 1 ELSE 0
        sect_ab_len == sect_len + gap + Len(diff_ab)
        sect_ba_len == sect_len + gap + Len(diff_ba)
        sect_ab_ratio == NormDistance(gap + Len(diff_ab), sect_len + sect_ab_len)
        sect_ba_ratio == NormDistance(gap + Len(diff_ba), sect_len + sect_ba_len)
    IN IF sect_len # 0 /\ (diff_ab = <<>> \/ diff_ba = <<>>)
       THEN 100 * ScoreUnit
       ELSE Max2(NormDistance(IndelDistance(diff_ab, diff_ba),
                              sect_ab_len + sect_ba_len),
                 IF sect_len = 0 THEN 0 ELSE Max2(sect_ab_ratio, sect_ba_ratio))

TokenSetSplit(tokens_a, tokens_b) ==
    IF tokens_a = {} \/ tokens_b = {} THEN 0
    ELSE TokenSetJoined(Len(JoinSorted(tokens_a \cap tokens_b)),
                        JoinSorted(tokens_a \ tokens_b),
                        JoinSorted(tokens_b \ tokens_a))

\* fuzz.token_set_ratio
TokenSetRatio(a, b) == TokenSetSplit(SeqToSet(Split(a)), SeqToSet(Split(b)))

\* Python's "a in b" on strings
Contains(b, a) ==
    \E i \in 1..(Len(b) - Len(a) + 1) : SubSeq(b, i, i + Len(a) - 1) = a

\* ------------------------------------------------------------------------
\* Values of the store

LP_MIN == 0

LP_MAX == 4

LP_RANGE == LP_MIN..LP_MAX

\* a raw price as callers pass it: a number (in tenths) or a text
Num(n) == [t |-> "num", n |-> n, s |-> <<>>]

Text(s) == [t |-> "str", n |-> 0, s |-> s]

DigitVal(c) == CASE c = "1" -> 1 [] c = "5" -> 5 [] c = "7" -> 7

RECURSIVE DigitsVal(_)
DigitsVal(s) ==
    IF s = <<>> THEN 0 ELSE DigitsVal(SubSeq(s, 1, Len(s) - 1)) * 10 + DigitVal(s[Len(s)])

RECURSIVE ReplaceComma(_)
ReplaceComma(s) ==
    IF s = <<>> THEN <<>>
    ELSE <<IF Head(s) = "," THEN "." ELSE Head(s)>> \o ReplaceComma(Tail(s))

\* float(text) on a text of digits and dots: None when float() raises, else
\* the value in tenths (texts carry at most one fractional digit)
ParseFloat(s) ==
    LET dots == {i \in DOMAIN s : s[i] = "."}
        digits == {i \in DOMAIN s : s[i] \in Digits}
        dot == IF dots = {} THEN Len(s) + 1 ELSE CHOOSE i \in dots : TRUE
        whole == SubSeq(s, 1, dot - 1)
        frac == SubSeq(s, dot + 1, Len(s))
    IN IF digits = {} \/ Cardinality(dots) > 1
          \/ Cardinality(digits) + Cardinality(dots) # Len(s)
       THEN None
       ELSE Some(DigitsVal(whole) * 10 + (IF frac = <<>> THEN 0 ELSE DigitVal(frac[1])))

\* _normalize_comment on an optional text
NormalizeComment(value) ==
    IF IsNone(value) \/ Strip(Val(value)) = <<>> THEN None ELSE Some(Strip(Val(value)))

\* a coercion that gives a text that is no number a price of 0 as well
CoercePriceText_both(value) ==
    IF IsNone(value) THEN <<None, None>>
    ELSE IF Val(value).t = "num" THEN <<Some(Val(value).n), None>>
    ELSE <<Some(0), Some(Strip(Val(value).s))>>

\* _coerce_price_text on an optional raw price: <<price, comment>>
CoercePriceText(value) ==
    IF IsNone(value) THEN <<None, None>>
    ELSE IF Val(value).t = "num" THEN <<Some(Val(value).n), None>>
    ELSE LET text == Strip(Val(value).s)
             parsed == ParseFloat(ReplaceComma(text))
         IN IF text = <<>> THEN <<None, None>>
            ELSE IF parsed # None THEN <<parsed, None>>
            ELSE <<None, Some(text)>>

\* _empty_state; known is the mapping, known_keys its iteration
\* (insertion) order
EmptyState ==
    [known |-> <<>>, known_keys |-> <<>>, known_order |-> <<>>, pending |-> <<>>]

\* _entry_has_lp; a slot outside LP_RANGE is a missing field
EntryHasLp(entry, pot) ==
    /\ pot \in LP_RANGE
    /\ \/ entry.price[pot] # None
       \/ entry.comment[pot] # None /\ Strip(Val(entry.comment[pot])) # <<>>

\* _lp_display_value
LpDisplayValue(entry, pot) ==
    IF entry.comment[pot] # None /\ Strip(Val(entry.comment[pot])) # <<>>
    THEN [comment |-> entry.comment[pot], price |-> None]
    ELSE [comment |-> None, price |-> entry.price[pot]]

\* PriceDB._generate_placeholder_key for the uuid numbered i
GeneratePlaceholderKey(i) == <<"__draft_", ToString(i)>>

\* PriceDB._make_entry
MakeEntry(name, now) ==
    [name |-> Strip(name), notes |-> None, created_at |-> now, updated_at |-> now,
     price |-> [p \in LP_RANGE |-> None], comment |-> [p \in LP_RANGE |-> None]]

InSeq(x, q) == \E i \in DOMAIN q : q[i] = x

RECURSIVE Without(_, _)
Without(q, S) ==
    IF q = <<>> THEN <<>>
    ELSE (IF Head(q) \in S THEN <<>> ELSE <<Head(q)>>) \o Without(Tail(q), S)

HasKey(st, key) == InSeq(key, st.known_keys)

\* self._state["known"][key] = entry
PutEntry(st, key, entry) ==
    IF HasKey(st, key)
    THEN [st EXCEPT !.known = [k \in DOMAIN st.known |-> IF k = key THEN entry ELSE st.known[k]]]
    ELSE [st EXCEPT !.known = [k \in DOMAIN st.known \cup {key} |->
                                   IF k = key THEN entry ELSE st.known[k]],
                    !.known_keys = Append(st.known_keys, key)]

\* del self._state["known"][key]
DelKeys(st, keys) ==
    [st EXCEPT !.known = [k \in DOMAIN st.known \ keys |-> st.known[k]],
               !.known_keys = Without(st.known_keys, keys)]

\* a lookup of the entry by the name as given instead of its canonical form
EnsureEntryLocked_raw(st, name, fresh, now) ==
    LET canonical == Norm(name)
        key == IF canonical # <<>> THEN canonical ELSE fresh
        added == PutEntry(st, key,
                     [name |-> Strip(name), notes |-> None, created_at |-> now,
                      updated_at |-> now, price |-> [p \in 0..4 |-> None],
                      comment |-> [p \in 0..4 |-> None]])
    IN IF canonical # <<>> /\ InSeq(name, st.known_keys)
       THEN [st |-> st, key |-> canonical, created |-> FALSE]
       ELSE [st |-> [added EXCEPT !.known_order =
                        IF InSeq(key, st.known_order) THEN st.known_order
                        ELSE Append(st.known_order, key)],
             key |-> key, created |-> TRUE]

\* PriceDB._ensure_entry_locked; fresh is the placeholder key the uuid loop
\* ends with (one that is not a key yet)
EnsureEntryLocked(st, name, fresh, now) ==
    LET canonical == Norm(name)
        key == IF canonical # <<>> THEN canonical ELSE fresh
        added == PutEntry(st, key, MakeEntry(name, now))
    IN IF canonical # <<>> /\ HasKey(st, canonical)
       THEN [st |-> st, key |-> canonical, created |-> FALSE]
       ELSE [st |-> [added EXCEPT !.known_order =
                        IF InSeq(key, st.known_order) THEN st.known_order
                        ELSE Append(st.known_order, key)],
             key |-> key, created |-> TRUE]

RECURSIVE PendingWithout(_, _)
PendingWithout(pending, names) ==
    IF pending = <<>> THEN <<>>
    ELSE (IF Norm(Head(pending).name) \in names THEN <<>> ELSE <<Head(pending)>>)
         \o PendingWithout(Tail(pending), names)

\* a removal that empties the pending list
RemovePendingLocked_all(st, canonical_names) == [st EXCEPT !.pending = <<>>]

\* PriceDB._remove_pending_locked
RemovePendingLocked(st, canonical_names) ==
    LET names == canonical_names \ {<<>>}
    IN IF names = {} THEN st
       ELSE [st EXCEPT !.pending = PendingWithout(st.pending, names)]

\* what an operation leaves: the state, whether it saved, its return value
\* and the exception it raised ("" when it returned)
Outcome(st, save, ret, err) == [st |-> st, save |-> save, ret |-> ret, err |-> err]

\* ------------------------------------------------------------------------
\* Operations of PriceDB on a state st, at time now

\* a search of the pending list that finds nothing
PendingIndex_none(pending, canonical) == 0

\* the first pending record of the canonical name, or 0
PendingIndex(pending, canonical) ==
    LET hits == {i \in DOMAIN pending : Norm(pending[i].name) = canonical}
    IN IF hits = {} THEN 0 ELSE CHOOSE i \in hits : \A j \in hits : i <= j

\* PriceDB.ensure_pending
ensure_pending(st, name, potential, now) ==
    LET canonical == Norm(name)
        idx == PendingIndex(st.pending, canonical)
    IN IF canonical # <<>> /\ HasKey(st, canonical)
       THEN Outcome(st, FALSE, FALSE, "")
       ELSE IF canonical # <<>>
               /\ \E k \in DOMAIN st.known : Norm(st.known[k].name) = canonical
       THEN Outcome(st, FALSE, FALSE, "")
       ELSE IF idx # 0
       THEN IF potential # None /\ st.pending[idx].potential = None
            THEN Outcome([st EXCEPT !.pending[idx].potential = potential],
                         TRUE, FALSE, "")
            ELSE Outcome(st, FALSE, FALSE, "")
       ELSE Outcome([st EXCEPT !.pending = Append(st.pending,
                        [name |-> Strip(name), potential |-> potential,
                         added_at |-> now])],
                    TRUE, TRUE, "")

\* PriceDB.set_price; price is a number
set_price(st, name, price, potential, fresh, now) ==
    LET pot == IF potential # None THEN Val(potential) ELSE 0
        ens == EnsureEntryLocked(st, name, fresh, now)
        key == ens.key
        entry == ens.st.known[key]
        price_differs == entry.price[pot] # Some(price)
        had_comment == entry.comment[pot] # None
        changed == ens.created \/ price_differs \/ had_comment
        entry2 == [entry EXCEPT !.price[pot] = Some(price),
                                !.comment[pot] = None,
                                !.updated_at = IF changed THEN now ELSE @]
        removed == RemovePendingLocked(PutEntry(ens.st, key, entry2), {Norm(name)})
        pending_removed == Len(removed.pending) # Len(st.pending)
    IN IF pot \notin LP_RANGE
       THEN Outcome(st, FALSE, None, "ValueError")
       ELSE Outcome(removed, changed \/ ens.created \/ pending_removed, Some(key), "")

\* PriceDB.add_known; price is an optional raw price
add_known(st, name, price, potential, fresh, now) ==
    LET ens == EnsureEntryLocked(st, name, fresh, now)
        key == ens.key
        entry == ens.st.known[key]
        pot == IF potential # None THEN Val(potential) ELSE 0
        coerced == CoercePriceText(price)
        value == coerced[1]
        comment == coerced[2]
        changed == \/ ens.created
                   \/ price # None /\ entry.price[pot] # value
                   \/ price # None /\ entry.comment[pot] # comment
        entry2 == IF price # None
                  THEN [entry EXCEPT !.price[pot] = value, !.comment[pot] = comment]
                  ELSE entry
        entry3 == IF changed
                  THEN [entry2 EXCEPT !.updated_at = now,
                                      !.created_at = IF ens.created THEN now ELSE @]
                  ELSE entry2
    IN IF price # None /\ pot \notin LP_RANGE
       THEN Outcome(ens.st, FALSE, None, "ValueError")
       ELSE Outcome(PutEntry(ens.st, key, entry3), changed, Some(key), "")

\* a rename that lists the new key at the end and keeps the old one
ReplaceFirst_appends(order, key, new_key) == Append(order, new_key)

RECURSIVE ReplaceFirst(_, _, _)
\* the loop of edit_known over known_order: the first occurrence of the old key
\* becomes the new key
ReplaceFirst(order, key, new_key) ==
    IF order = <<>> THEN <<>>
    ELSE IF Head(order) = key THEN <<new_key>> \o Tail(order)
    ELSE <<Head(order)>> \o ReplaceFirst(Tail(order), key, new_key)

\* the rename step of PriceDB.edit_known: the entry takes its new name
\* before its new key is looked up
edit_known_rename(st, key, name) ==
    LET entry == st.known[key]
        new_name == Strip(name)
        name_changed == entry.name # new_name
        named == PutEntry(st, key, [entry EXCEPT !.name = new_name])
        new_key == Norm(new_name)
        rekeyed == DelKeys(PutEntry(named, new_key, named.known[key]), {key})
    IN IF new_key # <<>> /\ new_key # key
       THEN IF HasKey(st, new_key)
            THEN [st |-> named, key |-> key, changed |-> name_changed,
                  err |-> "ValueError"]
            ELSE [st |-> [rekeyed EXCEPT !.known_order =
                             ReplaceFirst(st.known_order, key, new_key)],
                  key |-> new_key, changed |-> TRUE, err |-> ""]
       ELSE [st |-> named, key |-> key, changed |-> name_changed, err |-> ""]

\* the slots of PriceDB.edit_known: lp_values maps slots to optional raw
\* prices, slots outside LP_RANGE are skipped
edit_known_slots(entry, lp_values) ==
    [entry EXCEPT
       !.price = [p \in LP_RANGE |->
                     IF p \in DOMAIN lp_values
                     THEN CoercePriceText(lp_values[p])[1] ELSE entry.price[p]],
       !.comment = [p \in LP_RANGE |->
                     IF p \in DOMAIN lp_values
                     THEN CoercePriceText(lp_values[p])[2] ELSE entry.comment[p]]]

\* PriceDB.edit_known; name and notes are optional texts
edit_known(st, key, name, notes, lp_values, now) ==
    LET ren == IF name # None THEN edit_known_rename(st, key, Val(name))
               ELSE [st |-> st, key |-> key, changed |-> FALSE, err |-> ""]
        entry == ren.st.known[ren.key]
        entry2 == IF notes # None
                  THEN [entry EXCEPT !.notes = NormalizeComment(notes)]
                  ELSE entry
        entry3 == edit_known_slots(entry2, lp_values)
        changed == ren.changed \/ entry3 # entry
        entry4 == IF changed THEN [entry3 EXCEPT !.updated_at = now] ELSE entry3
    IN IF ~HasKey(st, key)
       THEN Outcome(st, FALSE, None, "KeyError")
       ELSE IF ren.err # ""
       THEN Outcome(ren.st, FALSE, None, ren.err)
       ELSE Outcome(PutEntry(ren.st, ren.key, entry4), changed, Some(ren.key), "")

\* PriceDB.delete_pending; names is a list of texts
delete_pending(st, names) ==
    LET targets == {Norm(names[i]) : i \in {j \in DOMAIN names : names[j] # <<>>}}
        kept == PendingWithout(st.pending, targets)
        removed == Len(st.pending) - Len(kept)
    IN IF names = <<>> THEN Outcome(st, FALSE, 0, "")
       ELSE Outcome([st EXCEPT !.pending = kept], removed # 0, removed, "")

\* PriceDB.delete_known; identifiers is a list of texts
delete_known(st, identifiers) ==
    LET norms == {Norm(identifiers[i]) :
                     i \in {j \in DOMAIN identifiers : identifiers[j] # <<>>}}
        keys == {k \in DOMAIN st.known :
                    InSeq(k, identifiers) \/ Norm(st.known[k].name) \in norms}
        deleted == DelKeys(st, keys)
    IN IF identifiers = <<>> \/ keys = {} THEN Outcome(st, FALSE, 0, "")
       ELSE Outcome([deleted EXCEPT !.known_order = Without(st.known_order, keys)],
                    TRUE, Cardinality(keys), "")

\* ------------------------------------------------------------------------
\* Lookup

RECURSIVE MapNonEmpty(_, _)
\* [F(x) for x in lines if x and F(x)] for the normalisation named by how
MapNonEmpty(lines, how) ==
    IF lines = <<>> THEN <<>>
    ELSE LET x == Head(lines)
             y == IF how = "clean" THEN CleanForMatch(x) ELSE ShapeFold(x)
         IN (IF x # <<>> /\ y # <<>> THEN <<y>> ELSE <<>>)
            \o MapNonEmpty(Tail(lines), how)

RECURSIVE TranslitLines(_)
\* [_clean_for_match(_translit_ru_to_lat(x)) for x in lines if x]
TranslitLines(lines) ==
    IF lines = <<>> THEN <<>>
    ELSE (IF Head(lines) # <<>>
          THEN <<CleanForMatch(TranslitRuToLat(Head(lines)))>> ELSE <<>>)
         \o TranslitLines(Tail(lines))

\* max(token_set_ratio, partial_ratio), 100 when one string contains the
\* other
FuzzyScore(name, ln) ==
    Max2(Max2(TokenSetRatio(name, ln), PartialRatio(name, ln)),
         IF name # <<>> /\ (Contains(ln, name) \/ Contains(name, ln))
         THEN 100 * ScoreUnit ELSE 0)

\* the token-coverage bonus of the clean strategy: int(95 + 5 * cov) when at
\* least 60% of the name's tokens of length >= 2 are tokens of the line
CoverageScore(name_n, ln) ==
    LET all == Split(name_n)
        name_tokens == {i \in DOMAIN all : Len(all[i]) >= 2}
        ln_tokens == {t \in SeqToSet(Split(ln)) : Len(t) >= 2}
        hit == Cardinality({i \in name_tokens : all[i] \in ln_tokens})
        n == Cardinality(name_tokens)
    IN IF n > 0 /\ 10 * hit >= 6 * n
       THEN ((95 * n + 5 * hit) \div n) * ScoreUnit ELSE 0

\* the best of the three strategies over the lines: the clean name against
\* the clean lines (with the coverage bonus), the shape-folded name against
\* the shape-folded lines, the transliterated name against the
\* transliterated lines
NameScore(name_n, name_shape, name_tr, norm_lines, shape_lines, translit_lines) ==
    SetMax({0}
        \cup {FuzzyScore(p[1], p[2]) :
                 p \in {<<name_n, norm_lines[i]>> : i \in DOMAIN norm_lines}
                       \cup {<<name_shape, shape_lines[i]>> : i \in DOMAIN shape_lines}
                       \cup {<<name_tr, translit_lines[i]>> :
                                i \in DOMAIN translit_lines}}
        \cup {CoverageScore(name_n, norm_lines[i]) : i \in DOMAIN norm_lines})

\* the score find_best gives one entry: the best of the three strategies
\* over the lines, plus 2 when the entry has data in the hinted slot
EntryScore(entry, lines, potential) ==
    NameScore(CleanForMatch(entry.name), ShapeFold(entry.name),
              CleanForMatch(TranslitRuToLat(entry.name)),
              MapNonEmpty(lines, "clean"), MapNonEmpty(lines, "shape"),
              TranslitLines(lines))
    + (IF potential # None /\ EntryHasLp(entry, Val(potential))
       THEN 2 * ScoreUnit ELSE 0)

\* a loop in which a later entry with an equal score replaces the best one
RECURSIVE BestOf_lastwins(_, _, _, _, _, _)
BestOf_lastwins(st, keys, lines, potential, strict_potential, best) ==
    IF keys = <<>> THEN best
    ELSE LET key == Head(keys)
             entry == st.known[key]
             skip == \/ CleanForMatch(entry.name) = <<>>
                     \/ strict_potential /\ potential # None
                        /\ ~EntryHasLp(entry, Val(potential))
             sc == EntryScore(entry, lines, potential)
         IN BestOf_lastwins(st, Tail(keys), lines, potential, strict_potential,
                   IF ~skip /\ sc >= best.score
                   THEN [rec |-> Some([key |-> key, entry |-> entry]), score |-> sc]
                   ELSE best)

\* a loop that keeps the entries without data in the hinted slot
RECURSIVE BestOf_keepsall(_, _, _, _, _, _)
BestOf_keepsall(st, keys, lines, potential, strict_potential, best) ==
    IF keys = <<>> THEN best
    ELSE LET key == Head(keys)
             entry == st.known[key]
             skip == CleanForMatch(entry.name) = <<>>
             sc == EntryScore(entry, lines, potential)
         IN BestOf_keepsall(st, Tail(keys), lines, potential, strict_potential,
                   IF ~skip /\ sc > best.score
                   THEN [rec |-> Some([key |-> key, entry |-> entry]), score |-> sc]
                   ELSE best)

\* the loop of find_best over the entries in iteration order: a later entry
\* replaces the best one only with a strictly greater score
RECURSIVE BestOf(_, _, _, _, _, _)
BestOf(st, keys, lines, potential, strict_potential, best) ==
    IF keys = <<>> THEN best
    ELSE LET key == Head(keys)
             entry == st.known[key]
             skip == \/ CleanForMatch(entry.name) = <<>>
                     \/ strict_potential /\ potential # None
                        /\ ~EntryHasLp(entry, Val(potential))
             sc == EntryScore(entry, lines, potential)
         IN BestOf(st, Tail(keys), lines, potential, strict_potential,
                   IF ~skip /\ sc > best.score
                   THEN [rec |-> Some([key |-> key, entry |-> entry]), score |-> sc]
                   ELSE best)

NoMatch == [rec |-> None, score |-> 0]

\* if best and best_score >= threshold
AtLeast(best, threshold) ==
    IF best.rec # None /\ best.score >= threshold * ScoreUnit THEN best ELSE NoMatch

\* PriceDB.find_best; threshold in points
find_best(st, lines, threshold, potential, strict_potential) ==
    IF lines = <<>> \/ MapNonEmpty(lines, "clean") = <<>> THEN NoMatch
    ELSE AtLeast(BestOf(st, st.known_keys, lines, potential, strict_potential, NoMatch),
                 threshold)

\* a display of slot 0 whatever the potential
DisplaySlot_zero(pot) == 0

\* pot if pot in LP_RANGE else 0
DisplaySlot(pot) == IF pot \in LP_RANGE THEN pot ELSE 0

\* if not rec: return None; return _lp_display_value(rec, slot)
Displayed(found, slot) ==
    IF found.rec = None
    THEN [value |-> [comment |-> None, price |-> None], rec |-> None]
    ELSE [value |-> LpDisplayValue(Val(found.rec).entry, slot), rec |-> found.rec]

\* PriceDB.get_price: the displayed value of the slot and the entry found
get_price(st, name, potential) ==
    Displayed(find_best(st, <<name>>, 80, potential, FALSE),
              DisplaySlot(IF potential # None THEN Val(potential) ELSE 0))

\* ------------------------------------------------------------------------
\* Persistence.  The content of a file is the state it serialises and the
\* number of chunks of the serialisation that reached it; an absent file is
\* None.

\* json.dump writes the document chunk by chunk: the opening, one chunk per
\* entry, the display order, one chunk per pending record, the closing (a
\* document of the legacy layout has a list "records" under "known" and no
\* display order, a document without "known" has the pending list only)
NumChunks(st) ==
    IF "records" \in DOMAIN st THEN 2 + Len(st.records) + Len(st.pending)
    ELSE IF "known_keys" \in DOMAIN st THEN 3 + Len(st.known_keys) + Len(st.pending)
    ELSE 2 + Len(st.pending)

Complete(st) == Some([st |-> st, n |-> NumChunks(st)])

IsComplete(content) == content # None /\ Val(content).n = NumChunks(Val(content).st)

\* open(tmp, "w"): the temp file is created or truncated
WriteStateOpen(st) == Some([st |-> st, n |-> 0])

\* one chunk of json.dump reaches the temp file
WriteStateChunk(content) == Some([Val(content) EXCEPT !.n = @ + 1])

\* a rename that does not wait for the dump to end
WriteStateDumped_early(content) == TRUE

\* the with block ends (the temp file is closed) once json.dump has written
\* every chunk; os.replace follows
WriteStateDumped(content) == IsComplete(content)

\* ------------------------------------------------------------------------
\* Bounds and inputs

MaxOps == 3

MaxDrafts == 2

N_empty == <<>>

N_ab == <<"a", "b">>

N_Ab == <<" ", "A", "b">>

N_abv == <<"a", "b", " ", "v">>

N_bang == <<"!">>

Names == {N_empty, N_ab, N_Ab, N_abv, N_bang}

\* <<price, potential>> of set_price: slot 0 by default, the last slot and
\* one past it
SetPriceInputs == {<<15, None>>, <<70, Some(LP_MAX)>>, <<15, Some(LP_MAX + 1)>>}

\* <<price, potential>> of add_known: no price, a number written with a
\* comma, a text that is no number, a number for a slot past the last
AddKnownInputs ==
    {<<None, None>>, <<Some(Text(<<"1", ",", "5">>)), None>>,
     <<Some(Text(<<"v", " ">>)), Some(LP_MAX)>>,
     <<Some(Num(15)), Some(LP_MAX + 1)>>}

VARIABLES known, known_keys, known_order, pending, file, tmp, pc, clock, last

\* threads calling one store: the owner of _lock, where each thread is in
\* its call, and the state the calls give when made one after another in the
\* order they took the lock
VARIABLES lock, th, serial

lockVars == <<lock, th, serial>>

\* the files the migration script leaves next to the price file: the backups
\* it made, and the file given as --output
VARIABLES backups, other

migVars == <<backups, other>>
\* _LAST_DETECTION_STATS of ocr.py
VARIABLES stats
recVars == <<stats>>

\* what neither a caller of the store nor a thread touches
\* _CACHE of template_manager.py, the tree under TEMPLATE_ROOT, time.time()
VARIABLES cache, tree, time
tplVars == <<cache, tree, time>>

\* _running of the worker, the threads of _hotkey_loop it has started, and
\* where the caller of update_settings is
VARIABLES running, listeners, caller
hkVars == <<running, listeners, caller>>
apart == <<migVars, recVars, tplVars, hkVars>>

vars == <<known, known_keys, known_order, pending, file, tmp, pc, clock, last,
          lockVars, apart>>

\* what a single caller leaves alone
beyond == <<lockVars, apart>>

\* time.time() - last_scan < 0.5, the time in quarters of a second
RateLimit == 2

\* _CACHE as the module defines it
EmptyCache ==
    [items |-> <<>>, inventory |-> <<>>, lp_global |-> <<>>, last_scan |-> 0,
     root_mtime |-> 0]

MaxLoops == 3

\* no migration has run, no diagnostics are recorded, no templates exist, the
\* worker is not started
Elsewhere ==
    /\ backups = <<>>
    /\ other = None
    /\ stats = <<>>
    /\ cache = EmptyCache
    /\ tree = [root |-> FALSE, dirs |-> {}, files |-> {}]
    /\ time = RateLimit
    /\ running = FALSE
    /\ listeners = [i \in 1..MaxLoops |-> "none"]
    /\ caller = "idle"

Threads == {"t1", "t2"}

\* no thread has called yet
NoCalls ==
    /\ lock = None
    /\ th = [t \in Threads |-> [at |-> "idle", out |-> None, seen |-> None]]
    /\ serial = EmptyState

\* self._state
State ==
    [known |-> known, known_keys |-> known_keys, known_order |-> known_order,
     pending |-> pending]

\* PriceDB.__init__ on a path without a file: the empty state is written
Init ==
    /\ known = <<>>
    /\ known_keys = <<>>
    /\ known_order = <<>>
    /\ pending = <<>>
    /\ file = Complete(EmptyState)
    /\ tmp = None
    /\ pc = "idle"
    /\ clock = 0
    /\ last = [op |-> "init", err |-> ""]
    /\ NoCalls
    /\ Elsewhere

\* the effect of an operation: its change of self._state and, when it saves,
\* _write_state, either whole (the temp file is written and renamed in the
\* same step) or entered, to run step by step
Apply(out, whole) ==
    /\ known' = out.st.known
    /\ known_keys' = out.st.known_keys
    /\ known_order' = out.st.known_order
    /\ pending' = out.st.pending
    /\ file' = IF out.save /\ whole THEN Complete(out.st) ELSE file
    /\ tmp' = tmp
    /\ pc' = IF out.save /\ ~whole THEN "write" ELSE pc
    /\ clock' = clock + 1
    /\ UNCHANGED beyond

\* the placeholder key the uuid loop of _generate_placeholder_key ends with:
\* keys are opaque, so the unused key of the least number stands for all
HasFresh == \E i \in 1..MaxDrafts : ~InSeq(GeneratePlaceholderKey(i), known_keys)

Fresh ==
    GeneratePlaceholderKey(
        CHOOSE i \in 1..MaxDrafts :
            /\ ~InSeq(GeneratePlaceholderKey(i), known_keys)
            /\ \A j \in 1..(i - 1) : InSeq(GeneratePlaceholderKey(j), known_keys))

Ready == pc = "idle" /\ clock < MaxOps /\ HasFresh

\* keys and names callers pass as identifiers of entries
Identifiers == SeqToSet(known_keys) \cup {N_Ab}

\* the edits of one row: <<name, notes, lp_values>>
NoLp == <<>>

Lp(pot, raw) == [p \in {pot} |-> raw]

Edits ==
    {<<Some(N_abv), None, NoLp>>,
     <<Some(N_Ab), Some(<<"v", " ">>), NoLp>>,
     <<Some(N_empty), None, Lp(0, Some(Text(<<"7">>)))>>,
     <<None, Some(<<" ">>), Lp(LP_MAX, Some(Text(<<" ">>)))>>,
     <<None, None, Lp(LP_MAX + 1, Some(Num(15)))>>}

SetPriceOn(names, inputs, whole) ==
    /\ Ready
    /\ \E name \in names, i \in inputs :
         LET out == set_price(State, name, i[1], i[2], Fresh, clock + 1)
         IN /\ Apply(out, whole)
            /\ last' = [op |-> "set_price", name |-> name, price |-> Some(Num(i[1])),
                        potential |-> i[2], ret |-> out.ret, err |-> out.err]

AddKnownOn(names, inputs, whole) ==
    /\ Ready
    /\ \E name \in names, i \in inputs :
         LET out == add_known(State, name, i[1], i[2], Fresh, clock + 1)
         IN /\ Apply(out, whole)
            /\ last' = [op |-> "add_known", name |-> name, price |-> i[1],
                        potential |-> i[2], ret |-> out.ret, err |-> out.err]

EditKnownOn(keys, edits, whole) ==
    /\ Ready
    /\ \E key \in keys, e \in edits :
         LET out == edit_known(State, key, e[1], e[2], e[3], clock + 1)
         IN /\ Apply(out, whole)
            /\ last' = [op |-> "edit_known", key |-> key, name |-> e[1],
                        ret |-> out.ret, err |-> out.err]

DeleteKnownOn(lists, whole) ==
    /\ Ready
    /\ \E identifiers \in lists :
         LET out == delete_known(State, identifiers)
         IN /\ Apply(out, whole)
            /\ last' = [op |-> "delete_known", ret |-> out.ret, err |-> out.err]

EnsurePendingOn(names, potentials, whole) ==
    /\ Ready
    /\ \E name \in names, potential \in potentials :
         LET out == ensure_pending(State, name, potential, clock + 1)
         IN /\ Apply(out, whole)
            /\ last' = [op |-> "ensure_pending", name |-> name,
                        ret |-> out.ret, err |-> out.err]

DeletePending ==
    /\ Ready
    /\ \E names \in {<<>>, <<N_Ab>>, <<N_empty, N_bang>>} :
         LET out == delete_pending(State, names)
         IN /\ Apply(out, TRUE)
            /\ last' = [op |-> "delete_pending", ret |-> out.ret, err |-> out.err]

SetPrice == SetPriceOn(Names \ {N_Ab, N_abv}, SetPriceInputs, TRUE)

AddKnown == AddKnownOn({N_empty, N_ab, N_Ab}, AddKnownInputs, TRUE)

EditKnown == EditKnownOn(Identifiers, Edits, TRUE)

DeleteKnown == DeleteKnownOn({<<>>} \cup {<<x>> : x \in Identifiers}, TRUE)

EnsurePending ==
    \/ EnsurePendingOn(Names \ {N_abv}, {None}, TRUE)
    \/ EnsurePendingOn({N_Ab}, {Some(0)}, TRUE)

Next ==
    \/ SetPrice
    \/ AddKnown
    \/ EditKnown
    \/ DeleteKnown
    \/ EnsurePending
    \/ DeletePending

Spec == Init /\ [][Next]_vars

\* ------------------------------------------------------------------------
\* The store with its lookups: the operations above on fewer inputs, and
\* find_best and get_price, which leave the store as it is

MaxLookupOps == 3

LookupNames == {N_ab, N_abv, N_bang}

LookupReady == clock < MaxLookupOps

LookupSetPrice ==
    /\ LookupReady
    /\ SetPriceOn(LookupNames, {<<15, None>>, <<70, Some(LP_MAX)>>}, TRUE)

LookupAddKnown ==
    /\ LookupReady
    /\ AddKnownOn({N_abv, N_empty},
                  {<<None, None>>, <<Some(Text(<<"v", " ">>)), Some(LP_MAX)>>}, TRUE)

LookupEditKnown ==
    /\ LookupReady
    /\ EditKnownOn(SeqToSet(known_keys),
                   {<<Some(N_Ab), None, NoLp>>, <<Some(N_empty), None, NoLp>>}, TRUE)

LookupDeleteKnown ==
    /\ LookupReady
    /\ DeleteKnownOn({<<x>> : x \in SeqToSet(known_keys)}, TRUE)

LookupEnsurePending ==
    /\ LookupReady
    /\ EnsurePendingOn({N_ab}, {None}, TRUE)

Observe ==
    /\ clock' = clock + 1
    /\ UNCHANGED <<known, known_keys, known_order, pending, file, tmp, pc, beyond>>

\* the lists of lines callers look up: the display name of an entry, a
\* name, and a name followed by a line of punctuation
LookupLines ==
    {<<known[k].name>> : k \in DOMAIN known}
    \cup {<<n>> : n \in LookupNames} \cup {<<N_ab, N_bang>>, <<>>}

FindBest ==
    /\ LookupReady
    /\ \E lines \in LookupLines,
          h \in {<<None, FALSE>>, <<Some(LP_MAX), FALSE>>, <<Some(LP_MAX), TRUE>>} :
         \E found \in {find_best(State, lines, 80, h[1], h[2])} :
            last' = [op |-> "find_best", lines |-> lines, potential |-> h[1],
                     strict_potential |-> h[2], rec |-> found.rec,
                     score |-> found.score, err |-> ""]
    /\ Observe

GetPrice ==
    /\ LookupReady
    /\ \E name \in LookupNames \cup {N_Ab}, potential \in {None, Some(LP_MAX)} :
         \E got \in {get_price(State, name, potential)} :
            last' = [op |-> "get_price", name |-> name, potential |-> potential,
                     value |-> got.value, rec |-> got.rec, err |-> ""]
    /\ Observe

LookupNext ==
    \/ LookupSetPrice
    \/ LookupAddKnown
    \/ LookupEditKnown
    \/ LookupDeleteKnown
    \/ LookupEnsurePending
    \/ FindBest
    \/ GetPrice

LookupSpec == Init /\ [][LookupNext]_vars

\* ------------------------------------------------------------------------
\* The store with _write_state run step by step, the process stopping at any
\* step and the store opened again on the price file

SaveNames == {N_ab, N_abv}

\* PriceDB.__init__ on a path without a file: no file yet, the empty state
\* about to be written
SaveInit ==
    /\ known = <<>>
    /\ known_keys = <<>>
    /\ known_order = <<>>
    /\ pending = <<>>
    /\ file = None
    /\ tmp = None
    /\ pc = "write"
    /\ clock = 0
    /\ last = [op |-> "init", err |-> ""]
    /\ NoCalls
    /\ Elsewhere

SaveSetPrice == SetPriceOn(SaveNames, {<<15, None>>, <<70, None>>}, FALSE)

SaveDeleteKnown == DeleteKnownOn({<<x>> : x \in SeqToSet(known_keys)}, FALSE)

SaveEnsurePending == EnsurePendingOn(SaveNames, {None}, FALSE)

\* open(tmp, "w")
WriteOpen ==
    /\ pc = "write"
    /\ tmp' = WriteStateOpen(State)
    /\ pc' = "dump"
    /\ UNCHANGED <<known, known_keys, known_order, pending, file, clock, last, beyond>>

\* json.dump writes one more chunk
WriteChunk ==
    /\ pc = "dump" /\ ~IsComplete(tmp)
    /\ tmp' = WriteStateChunk(tmp)
    /\ UNCHANGED <<known, known_keys, known_order, pending, file, pc, clock, last, beyond>>

\* the with block is left
WriteClose ==
    /\ pc = "dump" /\ WriteStateDumped(tmp)
    /\ pc' = "replace"
    /\ UNCHANGED <<known, known_keys, known_order, pending, file, tmp, clock, last, beyond>>

\* os.replace(tmp, self.path)
Replace ==
    /\ pc = "replace"
    /\ file' = tmp
    /\ tmp' = None
    /\ pc' = "idle"
    /\ UNCHANGED <<known, known_keys, known_order, pending, clock, last, beyond>>

\* open or a write raises OSError: the operation ends with the exception,
\* the temp file stays as far as it was written; raised in the constructor,
\* it leaves no store to work with
WriteFails ==
    /\ pc \in {"write", "dump"}
    /\ pc' = IF last.op = "init" THEN "crashed" ELSE "idle"
    /\ last' = [last EXCEPT !.err = "OSError"]
    /\ UNCHANGED <<known, known_keys, known_order, pending, file, tmp, clock, beyond>>

\* the process stops
Crash ==
    /\ pc # "crashed"
    /\ pc' = "crashed"
    /\ UNCHANGED <<known, known_keys, known_order, pending, file, tmp, clock, last, beyond>>

\* PriceDB.__init__ after the stop: a missing file is created from the empty
\* state, a file the store wrote is loaded as it is
Reopen ==
    /\ pc = "crashed"
    /\ file = None \/ IsComplete(file)
    /\ LET st == IF file = None THEN EmptyState ELSE Val(file).st
       IN /\ known' = st.known
          /\ known_keys' = st.known_keys
          /\ known_order' = st.known_order
          /\ pending' = st.pending
    /\ pc' = IF file = None THEN "write" ELSE "idle"
    /\ last' = [op |-> "init", err |-> ""]
    /\ UNCHANGED <<file, tmp, clock, beyond>>

SaveNext ==
    \/ SaveSetPrice
    \/ SaveDeleteKnown
    \/ SaveEnsurePending
    \/ WriteOpen
    \/ WriteChunk
    \/ WriteClose
    \/ Replace
    \/ WriteFails
    \/ Crash
    \/ Reopen

SaveSpec == SaveInit /\ [][SaveNext]_vars

\* ------------------------------------------------------------------------
\* Threads calling one store.  A call takes _lock, changes self._state (the
\* mapping of entries first, the display order and the pending list after
\* it), saves, and releases the lock; a reader takes the lock for its copy.

MaxLockOps == 3

\* an RLock that lets every thread in
LockAcquirable_always(owner, t) == TRUE

\* threading.RLock: free, or held by the thread that asks
LockAcquirable(owner, t) == owner = None \/ owner = Some(t)

\* the state in the middle of a call: self._state["known"] is changed,
\* known_order and pending are not yet
Partial(st, new) ==
    [new EXCEPT !.known_order = st.known_order, !.pending = st.pending]

\* PriceDB.list_known: the entries of the keys of known_order, a key without
\* an entry left out
RECURSIVE ListKnownRows(_, _)
ListKnownRows(st, order) ==
    IF order = <<>> THEN <<>>
    ELSE (IF HasKey(st, Head(order))
          THEN <<[key |-> Head(order), entry |-> st.known[Head(order)]]>>
          ELSE <<>>)
         \o ListKnownRows(st, Tail(order))

list_known(st) == ListKnownRows(st, st.known_order)

\* PriceDB.list_pending
list_pending(st) == st.pending

\* what a reader gets from list_known, list_pending and find_best
Snapshot(st) ==
    [known |-> list_known(st), pending |-> list_pending(st),
     best |-> find_best(st, <<N_ab>>, 80, None, FALSE).rec]

At(t, at) == th[t].at = at

LockReady(t) == At(t, "locked") /\ clock < MaxLockOps

\* with _lock:
Acquire(t) ==
    /\ At(t, "idle")
    /\ LockAcquirable(lock, t)
    /\ lock' = Some(t)
    /\ th' = [th EXCEPT ![t].at = "locked"]
    /\ UNCHANGED <<known, known_keys, known_order, pending, file, tmp, pc, clock,
                   last, serial, apart>>

\* the first part of a call: the outcome is computed from self._state and
\* the mapping of entries is changed; the same call is made on serial
Enter(t, out, after) ==
    /\ known' = out.st.known
    /\ known_keys' = out.st.known_keys
    /\ th' = [th EXCEPT ![t].at = "mutating", ![t].out = Some(out)]
    /\ serial' = after.st
    /\ clock' = clock + 1
    /\ UNCHANGED <<known_order, pending, file, tmp, pc, last, lock, apart>>

LockSetPrice(t) ==
    /\ LockReady(t)
    /\ \E name \in {N_ab, N_bang} :
         Enter(t, set_price(State, name, 15, None, Fresh, clock + 1),
               set_price(serial, name, 15, None, Fresh, clock + 1))

LockAddKnown(t) ==
    /\ LockReady(t)
    /\ Enter(t, add_known(State, N_Ab, Some(Text(<<"7">>)), None, Fresh, clock + 1),
             add_known(serial, N_Ab, Some(Text(<<"7">>)), None, Fresh, clock + 1))

LockEditKnown(t) ==
    /\ LockReady(t)
    /\ \E key \in SeqToSet(known_keys) :
         Enter(t, edit_known(State, key, Some(N_abv), None, NoLp, clock + 1),
               edit_known(serial, key, Some(N_abv), None, NoLp, clock + 1))

LockDeleteKnown(t) ==
    /\ LockReady(t)
    /\ \E key \in SeqToSet(known_keys) :
         Enter(t, delete_known(State, <<key>>), delete_known(serial, <<key>>))

LockEnsurePending(t) ==
    /\ LockReady(t)
    /\ Enter(t, ensure_pending(State, N_ab, None, clock + 1),
             ensure_pending(serial, N_ab, None, clock + 1))

LockDeletePending(t) ==
    /\ LockReady(t)
    /\ Enter(t, delete_pending(State, <<N_Ab>>), delete_pending(serial, <<N_Ab>>))

\* the rest of the change of self._state
Finish(t) ==
    /\ At(t, "mutating")
    /\ known' = Val(th[t].out).st.known
    /\ known_keys' = Val(th[t].out).st.known_keys
    /\ known_order' = Val(th[t].out).st.known_order
    /\ pending' = Val(th[t].out).st.pending
    /\ th' = [th EXCEPT ![t].at = IF Val(th[t].out).save THEN "write" ELSE "release"]
    /\ UNCHANGED <<file, tmp, pc, clock, last, lock, serial, apart>>

\* _save_locked: json.dump into the temp file
LockedDump(t) ==
    /\ At(t, "write")
    /\ tmp' = Complete(State)
    /\ th' = [th EXCEPT ![t].at = "replace"]
    /\ UNCHANGED <<known, known_keys, known_order, pending, file, pc, clock, last,
                   lock, serial, apart>>

\* _save_locked: os.replace
LockedReplace(t) ==
    /\ At(t, "replace")
    /\ file' = tmp
    /\ tmp' = None
    /\ th' = [th EXCEPT ![t].at = "release"]
    /\ UNCHANGED <<known, known_keys, known_order, pending, pc, clock, last,
                   lock, serial, apart>>

\* list_known, list_pending, find_best: copies made under the lock
Read(t) ==
    /\ LockReady(t)
    /\ th' = [th EXCEPT ![t].at = "release", ![t].seen = Some(Snapshot(State))]
    /\ clock' = clock + 1
    /\ UNCHANGED <<known, known_keys, known_order, pending, file, tmp, pc, last,
                   lock, serial, apart>>

\* the with block is left
Release(t) ==
    /\ At(t, "release")
    /\ lock' = IF lock = Some(t) THEN None ELSE lock
    /\ th' = [th EXCEPT ![t].at = "idle", ![t].out = None]
    /\ UNCHANGED <<known, known_keys, known_order, pending, file, tmp, pc, clock,
                   last, serial, apart>>

LockNext ==
    \E t \in Threads :
        \/ Acquire(t)
        \/ LockSetPrice(t)
        \/ LockAddKnown(t)
        \/ LockEditKnown(t)
        \/ LockDeleteKnown(t)
        \/ LockEnsurePending(t)
        \/ LockDeletePending(t)
        \/ Finish(t)
        \/ LockedDump(t)
        \/ LockedReplace(t)
        \/ Read(t)
        \/ Release(t)

LockSpec == Init /\ [][LockNext]_vars

\* ------------------------------------------------------------------------
\* Opening a price file (PriceDB.__init__) and the migration script
\* (scripts/migrate_prices_lp.py).  A document of the new layout is a store
\* state; a document of the legacy layout is [records, pending], records
\* being the list under "known"; [known_null, pending] is a document without
\* "known".  A raw potential is None, Num(n) for the integer n, or a text.

MaxLegacy == 2

MaxMigOps == 2

Min2(a, b) == IF a <= b THEN a ELSE b

\* isinstance(known, dict)
IsDict(doc) == "known_keys" \in DOMAIN doc

\* isinstance(known, list)
IsList(doc) == "records" \in DOMAIN doc

\* a check of the list layout only
IsLegacy_listonly(doc) == IsList(doc)

\* PriceDB._is_legacy
IsLegacy(doc) ==
    \/ IsList(doc)
    \/ IsDict(doc) /\ \E k \in DOMAIN doc.known : "potential" \in DOMAIN doc.known[k]

\* PriceDB._coerce_entry on an entry that has its timestamps and numeric
\* prices
CoerceEntry(entry) ==
    [name |-> Strip(entry.name), notes |-> NormalizeComment(entry.notes),
     created_at |-> entry.created_at, updated_at |-> entry.updated_at,
     price |-> entry.price,
     comment |-> [p \in LP_RANGE |-> NormalizeComment(entry.comment[p])]]

\* the keys of the mapping that the order misses, in iteration order
RECURSIVE Missing(_, _)
Missing(keys, order) ==
    IF keys = <<>> THEN <<>>
    ELSE (IF InSeq(Head(keys), order) THEN <<>> ELSE <<Head(keys)>>)
         \o Missing(Tail(keys), order)

\* known_order of _coerce_state: the listed keys that are keys of the
\* mapping, then the keys not listed
CoerceOrder(keys, order) ==
    SelectSeq(order, LAMBDA k : InSeq(k, keys))
    \o Missing(keys, SelectSeq(order, LAMBDA k : InSeq(k, keys)))

\* PriceDB._coerce_state
CoerceState(doc) ==
    IF IsDict(doc)
    THEN [known |-> [k \in DOMAIN doc.known |-> CoerceEntry(doc.known[k])],
          known_keys |-> doc.known_keys,
          known_order |-> CoerceOrder(doc.known_keys, doc.known_order),
          pending |-> doc.pending]
    ELSE [EmptyState EXCEPT !.pending = doc.pending]

\* int(pot_raw), 0 when it raises
IntOrZero(raw) ==
    IF raw = None THEN 0
    ELSE IF Val(raw).t = "num" THEN Val(raw).n
    ELSE IF Strip(Val(raw).s) # <<>>
            /\ \A i \in DOMAIN Strip(Val(raw).s) : Strip(Val(raw).s)[i] \in Digits
         THEN DigitsVal(Strip(Val(raw).s))
    ELSE 0

\* pot = max(0, min(4, pot))
MigSlot(raw) == Max2(0, Min2(4, IntOrZero(raw)))

\* _blank_entry
BlankEntry(name, timestamp) ==
    [name |-> Strip(name), notes |-> None, created_at |-> timestamp,
     updated_at |-> timestamp, price |-> [p \in 0..4 |-> None],
     comment |-> [p \in 0..4 |-> None]]

\* _coerce_price of the script: <<price, comment>>
CoercePrice(value) ==
    IF IsNone(value) THEN <<None, None>>
    ELSE IF Val(value).t = "num" THEN <<Some(Val(value).n), None>>
    ELSE IF Strip(Val(value).s) = <<>> THEN <<None, None>>
    ELSE IF ParseFloat(ReplaceComma(Strip(Val(value).s))) # None
         THEN <<ParseFloat(ReplaceComma(Strip(Val(value).s))), None>>
    ELSE <<None, Some(Strip(Val(value).s))>>

\* record.get("updated_at") or record.get("created_at") or now
Timestamp(record, now) ==
    IF record.updated_at # None THEN Val(record.updated_at)
    ELSE IF record.created_at # None THEN Val(record.created_at)
    ELSE now

\* a later record of a name already grouped
Regrouped(entry, raw_name, timestamp) ==
    [entry EXCEPT !.name = IF raw_name # <<>> THEN raw_name ELSE @,
                  !.created_at = Min2(@, timestamp),
                  !.updated_at = Max2(@, timestamp)]

\* a fold that keeps what the slot already holds
SlotFolded_keepsfirst(entry, pot, coerced) ==
    IF entry.price[pot] # None \/ entry.comment[pot] # None THEN entry
    ELSE IF coerced[1] # None
    THEN [entry EXCEPT !.price[pot] = coerced[1], !.comment[pot] = None]
    ELSE IF coerced[2] # None
    THEN [entry EXCEPT !.price[pot] = None, !.comment[pot] = coerced[2]]
    ELSE entry

\* the record's price or comment put into the slot, over what it holds
SlotFolded(entry, pot, coerced) ==
    IF coerced[1] # None
    THEN [entry EXCEPT !.price[pot] = coerced[1], !.comment[pot] = None]
    ELSE IF coerced[2] # None
    THEN [entry EXCEPT !.price[pot] = None, !.comment[pot] = coerced[2]]
    ELSE entry

\* canonical = _norm(raw_name) or f"unnamed-{len(grouped)}"
GroupKey(raw_name, grouped) ==
    IF Norm(raw_name) # <<>> THEN Norm(raw_name)
    ELSE <<"unnamed-", ToString(Len(grouped.known_keys))>>

\* the entry of the record's group, before its slot is folded in
Grouped(grouped, canonical, raw_name, timestamp) ==
    IF HasKey(grouped, canonical)
    THEN Regrouped(grouped.known[canonical], raw_name, timestamp)
    ELSE BlankEntry(IF raw_name # <<>> THEN raw_name ELSE canonical, timestamp)

\* the body of the loop of migrate for one record
FoldRecord(record, grouped, canonical, now) ==
    PutEntry(grouped, canonical,
             SlotFolded(Grouped(grouped, canonical, Strip(record.name),
                                Timestamp(record, now)),
                        MigSlot(record.potential), CoercePrice(record.price)))

\* the loop of migrate over the legacy list; a record that is not a dict is
\* passed over
RECURSIVE MigrateRecords(_, _, _)
MigrateRecords(records, grouped, now) ==
    IF records = <<>> THEN grouped
    ELSE MigrateRecords(Tail(records),
             IF Head(records).dict
             THEN FoldRecord(Head(records), grouped,
                             GroupKey(Strip(Head(records).name), grouped), now)
             ELSE grouped,
             now)

\* new_data of migrate
NewData(grouped, carried) ==
    [known |-> grouped.known, known_keys |-> grouped.known_keys,
     known_order |-> grouped.known_keys, pending |-> carried]

\* migrate: whether the output is written, the document written, and the
\* error raised ("" when it returned)
migrate(doc, now) ==
    IF IsDict(doc) THEN [written |-> FALSE, new |-> doc, err |-> ""]
    ELSE IF ~IsList(doc) THEN [written |-> FALSE, new |-> doc, err |-> "SystemExit"]
    ELSE [written |-> TRUE,
          new |-> NewData(MigrateRecords(doc.records, EmptyState, now), doc.pending),
          err |-> ""]

\* a backup made before the layout is looked at
BackedUp_always(m, backup) == backup

\* shutil.copy2(input_path, backup_path): when the output is written over
\* the input and a backup is asked for
BackedUp(m, backup) == m.written /\ backup

\* records of a legacy list: <<name, potential, price, updated_at,
\* created_at>>
LegacyRecord(name, potential, price, updated_at, created_at) ==
    [dict |-> TRUE, name |-> name, potential |-> potential, price |-> price,
     updated_at |-> updated_at, created_at |-> created_at]

N_unnamed0 == <<"unnamed-", "0">>

LegacyRecords ==
    {LegacyRecord(N_Ab, None, Some(Text(<<"v", " ">>)), Some(1), None),
     LegacyRecord(N_ab, Some(Num(1)), Some(Num(70)), Some(2), Some(1)),
     LegacyRecord(N_ab, Some(Text(<<" ", "1">>)), Some(Text(<<"1", ",", "5">>)), None, None),
     LegacyRecord(N_ab, None, None, None, Some(1)),
     LegacyRecord(N_empty, Some(Num(7)), Some(Num(70)), Some(1), None),
     LegacyRecord(N_empty, Some(Text(<<"v">>)), Some(Text(<<" ">>)), None, None),
     LegacyRecord(N_unnamed0, Some(Num(0 - 1)), Some(Text(<<"7">>)), Some(2), None),
     [dict |-> FALSE, name |-> <<>>, potential |-> None, price |-> None,
      updated_at |-> None, created_at |-> None]}

PendingItem == [name |-> N_abv, potential |-> Some(1), added_at |-> 1]

LegacyDocs ==
    {[records |-> rs, pending |-> <<>>] :
        rs \in UNION {[1..n -> LegacyRecords] : n \in 0..MaxLegacy}}
    \cup {[records |-> <<r>>, pending |-> <<PendingItem>>] : r \in LegacyRecords}

\* an entry of a mapping that still carries the legacy field "potential"
TaggedEntry ==
    [name |-> N_ab, notes |-> None, created_at |-> 1, updated_at |-> 1,
     price |-> [p \in LP_RANGE |-> None], comment |-> [p \in LP_RANGE |-> None],
     potential |-> 2]

\* documents of the new layout: the empty store, a store with an entry, a
\* mapping edited by hand (a name with spaces, no display order), a mapping
\* with a legacy entry; and a document without "known"
OtherDocs ==
    {EmptyState,
     set_price(EmptyState, N_ab, 15, None, <<>>, 1).st,
     [known |-> (N_ab :> [MakeEntry(N_ab, 1) EXCEPT !.name = N_Ab]),
      known_keys |-> <<N_ab>>, known_order |-> <<>>, pending |-> <<PendingItem>>],
     [known |-> (N_ab :> TaggedEntry), known_keys |-> <<N_ab>>,
      known_order |-> <<N_ab>>, pending |-> <<>>],
     [known_null |-> TRUE, pending |-> <<>>]}

\* the price file a run starts from, if there is one; no store is open
MigInit ==
    /\ known = <<>>
    /\ known_keys = <<>>
    /\ known_order = <<>>
    /\ pending = <<>>
    /\ file \in {None} \cup {Complete(d) : d \in LegacyDocs \cup OtherDocs}
    /\ tmp = None
    /\ pc = "closed"
    /\ clock = 0
    /\ last = [op |-> "init", err |-> ""]
    /\ NoCalls
    /\ Elsewhere

\* what neither the migration nor the constructor touches
aside == <<lockVars, recVars, tplVars, hkVars>>

MigReady == clock < MaxMigOps /\ file # None

\* main without --output: migrate(input, input, backup)
MigrateInPlace ==
    /\ MigReady
    /\ \E backup \in BOOLEAN, m \in {migrate(Val(file).st, clock + 1)} :
         /\ file' = IF m.written THEN Complete(m.new) ELSE file
         /\ backups' = IF BackedUp(m, backup) THEN Append(backups, file) ELSE backups
         /\ last' = [op |-> "migrate", output |-> "input", input |-> Val(file).st,
                     backup |-> backup, err |-> m.err]
    /\ clock' = clock + 1
    /\ UNCHANGED <<known, known_keys, known_order, pending, tmp, pc, other, aside>>

\* main with --output: migrate(input, output, backup); no backup is made of
\* an input that is not written over
MigrateToOutput ==
    /\ MigReady
    /\ \E m \in {migrate(Val(file).st, clock + 1)} :
         /\ other' = IF m.written THEN Complete(m.new) ELSE other
         /\ last' = [op |-> "migrate", output |-> "output", input |-> Val(file).st,
                     backup |-> TRUE, err |-> m.err]
    /\ clock' = clock + 1
    /\ UNCHANGED <<known, known_keys, known_order, pending, file, tmp, pc, backups,
                   aside>>

\* main on a missing input: SystemExit
MigrateMissing ==
    /\ clock < MaxMigOps /\ file = None
    /\ last' = [op |-> "migrate", output |-> "input", input |-> EmptyState,
                backup |-> TRUE, err |-> "SystemExit"]
    /\ clock' = clock + 1
    /\ UNCHANGED <<known, known_keys, known_order, pending, file, tmp, pc, migVars,
                   aside>>

\* PriceDB.__init__ on a missing file: the empty state is written and loaded
OpenMissing ==
    /\ clock < MaxMigOps /\ file = None /\ pc = "closed"
    /\ file' = Complete(EmptyState)
    /\ pc' = "idle"
    /\ last' = [op |-> "open", err |-> ""]
    /\ clock' = clock + 1
    /\ UNCHANGED <<known, known_keys, known_order, pending, tmp, migVars, aside>>

\* PriceDB.__init__ on a file of the legacy layout: RuntimeError, no store
OpenLegacy ==
    /\ MigReady /\ pc = "closed"
    /\ IsLegacy(Val(file).st)
    /\ last' = [op |-> "open", err |-> "RuntimeError"]
    /\ clock' = clock + 1
    /\ UNCHANGED <<known, known_keys, known_order, pending, file, tmp, pc, migVars,
                   aside>>

\* PriceDB.__init__ on any other file: the coerced state is loaded, and
\* written when it differs from the document read
Open ==
    /\ MigReady /\ pc = "closed"
    /\ ~IsLegacy(Val(file).st)
    /\ \E st \in {CoerceState(Val(file).st)} :
         /\ known' = st.known
         /\ known_keys' = st.known_keys
         /\ known_order' = st.known_order
         /\ pending' = st.pending
         /\ file' = IF st # Val(file).st THEN Complete(st) ELSE file
    /\ pc' = "idle"
    /\ last' = [op |-> "open", err |-> ""]
    /\ clock' = clock + 1
    /\ UNCHANGED <<tmp, migVars, aside>>

\* a call on the store that was opened
OpenedSetPrice ==
    /\ clock < MaxMigOps
    /\ SetPriceOn({N_ab}, {<<70, Some(1)>>}, TRUE)

MigNext ==
    \/ MigrateInPlace
    \/ MigrateToOutput
    \/ MigrateMissing
    \/ OpenMissing
    \/ OpenLegacy
    \/ Open
    \/ OpenedSetPrice

MigSpec == MigInit /\ [][MigNext]_vars

\* ------------------------------------------------------------------------
\* The price check of the worker (OCRWorker._on_trigger): the item and the
\* potential come from template matching, the entry from the store, and the
\* text of the overlay is emitted with boxReady.

\* _price_field, _comment_field
PriceField(pot) == "price_lp" \o ToString(pot)

CommentField(pot) == "comment_lp" \o ToString(pot)

\* entry.get(key) on an entry of the store, whose keys are name, notes,
\* created_at, updated_at and price_lpN, comment_lpN for the five slots
EntryGet(entry, key) ==
    IF key = "name" THEN Some(Text(entry.name))
    ELSE IF key = "notes"
         THEN (IF entry.notes = None THEN None ELSE Some(Text(Val(entry.notes))))
    ELSE IF key = "created_at" THEN Some(Num(entry.created_at))
    ELSE IF key = "updated_at" THEN Some(Num(entry.updated_at))
    ELSE IF \E p \in LP_RANGE : key = PriceField(p)
         THEN (IF entry.price[CHOOSE p \in LP_RANGE : key = PriceField(p)] = None THEN None
               ELSE Some(Num(Val(entry.price[CHOOSE p \in LP_RANGE : key = PriceField(p)]))))
    ELSE IF \E p \in LP_RANGE : key = CommentField(p)
         THEN (IF entry.comment[CHOOSE p \in LP_RANGE : key = CommentField(p)] = None THEN None
               ELSE Some(Text(Val(entry.comment[CHOOSE p \in LP_RANGE : key = CommentField(p)]))))
    ELSE None

\* rec.get(key) on what find_best returns, a copy of the entry with its key
\* under "key" (_clone_entry)
CloneGet(rec, key) ==
    IF key = "key" THEN Some(Text(rec.key)) ELSE EntryGet(rec.entry, key)

\* the digits of a natural number
RECURSIVE DigitsOf(_)
DigitsOf(n) == IF n < 10 THEN <<ToString(n)>> ELSE DigitsOf(n \div 10) \o <<ToString(n % 10)>>

\* group3 of _format_price: the integer part in groups of three digits
RECURSIVE Group3(_)
Group3(n) ==
    IF n < 1000 THEN DigitsOf(n)
    ELSE Group3(n \div 1000) \o <<".">>
         \o <<ToString((n \div 100) % 10), ToString((n \div 10) % 10), ToString(n % 10)>>

\* _format_price of a price in tenths: the grouped integer part and, when
\* it is not zero, the decimal after a comma
FormatPrice(n) ==
    Group3(n \div 10) \o (IF n % 10 = 0 THEN <<>> ELSE <<",", ToString(n % 10)>>)

\* the second line of the overlay when there is no price text
Placeholder == <<"net v tablitse">>

\* the second line of the overlay for a price text
Second(price_txt) ==
    IF price_txt = None THEN Placeholder
    ELSE IF Val(price_txt).t = "num" THEN FormatPrice(Val(price_txt).n)
    ELSE IF Strip(Val(price_txt).s) = <<>> THEN Placeholder
    ELSE IF ParseFloat(ReplaceComma(Val(price_txt).s)) # None
         THEN FormatPrice(Val(ParseFloat(ReplaceComma(Val(price_txt).s))))
    ELSE Val(price_txt).s

\* the second lookup of the trigger, made when the first gave no entry
Relooked(st, item_name, strict) ==
    IF strict.rec # None THEN strict ELSE find_best(st, <<item_name>>, 80, None, FALSE)

\* the entry the trigger looks up: with the potential and strictly when the
\* potential is positive, and without it when that gives nothing
TriggerLookup(st, item_name, potential) ==
    Relooked(st, item_name,
             IF potential > 0 THEN find_best(st, <<item_name>>, 80, Some(potential), TRUE)
             ELSE NoMatch)

\* the text _on_trigger emits for a matched item: the name and the
\* potential on the first line, the price text on the second
OverlayText(item_name, potential, rec) ==
    [item |-> item_name, lp |-> potential, rec |-> rec,
     second |-> Second(IF rec # None THEN CloneGet(Val(rec), "price") ELSE None)]

\* what template matching gives for the region under the cursor: an item or
\* nothing, and a potential
Matches == {None} \cup {Some(n) : n \in LookupNames}

Potentials == {0, 1, LP_MAX}

\* OCRWorker._on_trigger
OnTrigger ==
    /\ LookupReady
    /\ \E match \in Matches, potential \in Potentials :
         IF match = None
         THEN last' = [op |-> "trigger", emitted |-> FALSE, err |-> ""]
         ELSE \E rec \in {TriggerLookup(State, Val(match), potential).rec} :
                last' = [op |-> "trigger", emitted |-> TRUE, err |-> "",
                         text |-> OverlayText(Val(match), potential, rec)]
    /\ Observe

TriggerNext ==
    \/ LookupSetPrice
    \/ LookupAddKnown
    \/ OnTrigger

TriggerSpec == Init /\ [][TriggerNext]_vars

\* ------------------------------------------------------------------------
\* Corner detection (ocr._detect_cropped_region) and its diagnostics record.
\* Scores and thresholds are in hundredths; a match of _match_best is
\* [val, loc, size] with loc = <<x, y>> and size = <<w, h>>, or None.

Update(d, u) == [k \in DOMAIN d \cup DOMAIN u |-> IF k \in DOMAIN u THEN u[k] ELSE d[k]]

\* a record that is updated, not replaced, at the start of a call
StatsReset_keeps(old, fresh) == Update(old, fresh)

\* _LAST_DETECTION_STATS = {...}: the record of the call replaces the old one
StatsReset(old, fresh) == fresh

\* a failed detection: nothing is returned, the record is updated
Failed(base, u) == [ret |-> None, stats |-> Update(base, u)]

\* the corner of the window in which the bottom-right marker is looked for
WindowAt(at, size, limit) == Min2(Max2(0, at + Max2(2, size \div 2)), limit - 1)

\* the inset edges of the rectangle between the two markers
EdgeLow(at, size) == at + Max2(2, size \div 16)

EdgeHigh(at, size) == at + size - Max2(2, size \div 16)

\* the relaxed threshold of a corner
Relaxed(threshold, margin) == Max2(52, threshold - margin)

\* a record that always names the threshold asked for
Used_asked(val, threshold, margin) == threshold

\* the threshold a corner score was accepted with
Used(val, threshold, margin) == IF val < threshold THEN Relaxed(threshold, margin) ELSE threshold

\* the end of _detect_cropped_region, after both markers were accepted:
\* x1, y1, x2, y2 are the edges of the rectangle
Cropped(base, scores, x1, y1, x2, y2) ==
    IF x2 <= x1 \/ y2 <= y1 \/ x2 <= x1 + 10 \/ y2 <= y1 + 10
    THEN Failed(base, [result |-> "geometry_fail"] @@ scores)
    ELSE [ret |-> Some(<<x1, y1, x2, y2>>),
          stats |-> Update(base, [result |-> "ok", rect |-> <<x1, y1, x2, y2>>] @@ scores)]

\* the part of _detect_cropped_region after the window (rx1, ry1) of the
\* bottom-right marker is known
BottomRight(base, tl, used_tl_thr, rx1, ry1, shape, br) ==
    IF shape[1] - rx1 < 8 \/ shape[2] - ry1 < 8
    THEN Failed(base, [result |-> "br_window_fail", tl_score |-> tl.val,
                       relaxed_threshold |-> used_tl_thr])
    ELSE IF br = None
    THEN Failed(base, [result |-> "br_fail", tl_score |-> tl.val,
                       relaxed_threshold |-> used_tl_thr])
    ELSE IF Val(br).val < used_tl_thr /\ Val(br).val < Relaxed(used_tl_thr, 5)
    THEN Failed(base, [result |-> "br_fail", tl_score |-> tl.val, br_score |-> Val(br).val,
                       relaxed_threshold |-> used_tl_thr,
                       relaxed_br_threshold |-> Relaxed(used_tl_thr, 5)])
    ELSE Cropped(base,
                 [tl_score |-> tl.val, br_score |-> Val(br).val,
                  tl_threshold_used |-> used_tl_thr,
                  br_threshold_used |-> Used(Val(br).val, used_tl_thr, 5)],
                 EdgeLow(tl.loc[1], tl.size[1]), EdgeLow(tl.loc[2], tl.size[2]),
                 EdgeHigh(rx1 + Val(br).loc[1], Val(br).size[1]),
                 EdgeHigh(ry1 + Val(br).loc[2], Val(br).size[2]))

\* _detect_cropped_region: base is the record after the reset; tl_tpls and
\* br_tpls say whether there are templates of the corners; shape = <<w, h>>
\* of the image; tl and br are what _match_best gives for the corners
DetectCroppedRegion(base, threshold, tl_tpls, br_tpls, shape, tl, br) ==
    IF ~tl_tpls \/ ~br_tpls THEN Failed(base, [result |-> "no_templates"])
    ELSE IF tl = None THEN Failed(base, [result |-> "tl_fail", tl_score |-> None])
    ELSE IF Val(tl).val < threshold /\ Val(tl).val < Relaxed(threshold, 8)
    THEN Failed(base, [result |-> "tl_fail", tl_score |-> Val(tl).val,
                       relaxed_threshold |-> Relaxed(threshold, 8)])
    ELSE BottomRight(base, Val(tl), Used(Val(tl).val, threshold, 8),
                     WindowAt(Val(tl).loc[1], Val(tl).size[1], shape[1]),
                     WindowAt(Val(tl).loc[2], Val(tl).size[2], shape[2]),
                     shape, br)

\* what _match_best can give on an image of the shape: the template is
\* smaller than the image and lies inside it
Found(shape) ==
    {None} \cup
    {Some([val |-> c[1], loc |-> <<c[2], c[2]>>, size |-> <<c[3], c[3]>>]) :
        c \in {c \in {50, 58, 65, 75} \X {0, 14, 40} \X {2, 8} :
                  /\ c[3] < shape[1] /\ c[3] < shape[2]
                  /\ c[2] + c[3] <= shape[1] /\ c[2] + c[3] <= shape[2]}}

Shapes == {<<24, 24>>, <<64, 64>>}

\* the window of the bottom-right marker for a match of the top-left one
SubShape(shape, tl) ==
    IF tl = None THEN shape
    ELSE <<shape[1] - WindowAt(Val(tl).loc[1], Val(tl).size[1], shape[1]),
           shape[2] - WindowAt(Val(tl).loc[2], Val(tl).size[2], shape[2])>>

\* a call of _detect_cropped_region; last keeps whether the record of the
\* call before had a rect
DetectCorners ==
    /\ \E threshold \in {55, 70}, tl_tpls, br_tpls \in BOOLEAN, shape \in Shapes :
         \E tl \in Found(shape) : \E br \in Found(SubShape(shape, tl)) :
           \E out \in {DetectCroppedRegion(
                          StatsReset(stats, [threshold |-> threshold, result |-> "init"]),
                          threshold, tl_tpls, br_tpls, shape, tl, br)} :
              /\ stats' = out.stats
              /\ last' = [op |-> "detect", ret |-> out.ret,
                          had_rect |-> "rect" \in DOMAIN stats, err |-> ""]
    /\ UNCHANGED <<known, known_keys, known_order, pending, file, tmp, pc, clock,
                   lockVars, migVars, tplVars, hkVars>>

\* get_last_detection_stats: a copy of the record
GetLastDetectionStats ==
    /\ last' = [op |-> "stats", ret |-> stats, had_rect |-> "rect" \in DOMAIN stats,
                err |-> ""]
    /\ UNCHANGED <<known, known_keys, known_order, pending, file, tmp, pc, clock,
                   lockVars, migVars, recVars, tplVars, hkVars>>

DetectNext ==
    \/ DetectCorners
    \/ GetLastDetectionStats

DetectSpec == Init /\ [][DetectNext]_vars

\* ------------------------------------------------------------------------
\* Template matching (template_manager.py).  A score is what
\* _best_match_scaled gives, in hundredths and never negative; None stands
\* for an item or a slot without templates, which the loops pass over.

\* the loop of detect_potential_global over the slots 1..4
RECURSIVE BestPotential(_, _, _)
BestPotential(scores, pots, best) ==
    IF pots = <<>> THEN best
    ELSE BestPotential(scores, Tail(pots),
             IF scores[Head(pots)] # None /\ Val(scores[Head(pots)]) > best.score
             THEN [pot |-> Head(pots), score |-> Val(scores[Head(pots)])]
             ELSE best)

\* an acceptance at the threshold only
PotentialAccepted_norelax(best, thr) ==
    IF best.score >= thr THEN best ELSE [pot |-> 0, score |-> best.score]

\* the end of detect_potential_global: accepted at the threshold, or at the
\* relaxed one when a slot was found
PotentialAccepted(best, thr) ==
    IF best.score >= thr THEN best
    ELSE IF best.pot # 0 /\ best.score >= Max2(78, thr - 8) THEN best
    ELSE [pot |-> 0, score |-> best.score]

detect_potential_global(scores, thr) ==
    PotentialAccepted(BestPotential(scores, <<1, 2, 3, 4>>, [pot |-> 0, score |-> 0]), thr)

\* the loop of match_item_by_templates over the items of the cache
RECURSIVE BestItem(_, _)
BestItem(items, best) ==
    IF items = <<>> THEN best
    ELSE BestItem(Tail(items),
             IF Head(items).score # None /\ Val(Head(items).score) > best.score
             THEN [name |-> Some(Head(items).name), score |-> Val(Head(items).score)]
             ELSE best)

\* an acceptance at the threshold only
ItemAccepted_norelax(best, threshold) ==
    IF best.name = None THEN None
    ELSE IF best.score >= threshold THEN Some(<<Val(best.name), best.score>>)
    ELSE None

\* the end of match_item_by_templates
ItemAccepted(best, threshold) ==
    IF best.name = None THEN None
    ELSE IF best.score >= threshold THEN Some(<<Val(best.name), best.score>>)
    ELSE IF best.score >= Max2(72, threshold - 7) THEN Some(<<Val(best.name), best.score>>)
    ELSE None

match_item_by_templates(root, items, threshold) ==
    IF ~root THEN None
    ELSE ItemAccepted(BestItem(items, [name |-> None, score |-> 0]), threshold)

\* the scores of the slots and of the items of a region
SlotScores == {None} \cup {Some(v) : v \in {0, 77, 78, 81, 82, 90}}

ItemScores == {None} \cup {Some(v) : v \in {0, 71, 72, 77, 78, 85}}

\* the items of the cache, in its order: no item twice
CachedItems ==
    {<<>>} \cup {<<[name |-> n, score |-> v]>> : n \in LookupNames, v \in ItemScores}
    \cup {<<[name |-> n[1], score |-> v[1]], [name |-> n[2], score |-> v[2]]>> :
            n \in {n \in LookupNames \X LookupNames : n[1] # n[2]},
            v \in ItemScores \X ItemScores}

\* what a call of the matching functions leaves alone
unmatched == <<known, known_keys, known_order, pending, file, tmp, pc, clock, beyond>>

\* one call is looked at, on the inputs it is given
Uncalled == last.op = "init"

DetectPotential ==
    /\ Uncalled
    /\ \E scores \in [1..4 -> SlotScores], thr \in {80, 90} :
         last' = [op |-> "detect_potential_global", scores |-> scores, threshold |-> thr,
                  ret |-> detect_potential_global(scores, thr), err |-> ""]
    /\ UNCHANGED unmatched

MatchItem ==
    /\ Uncalled
    /\ \E root \in BOOLEAN, items \in CachedItems, threshold \in {75, 85} :
         last' = [op |-> "match_item_by_templates", root |-> root, items |-> items,
                  threshold |-> threshold,
                  ret |-> match_item_by_templates(root, items, threshold), err |-> ""]
    /\ UNCHANGED unmatched


\* The inventory scan.  The region is one row of cells as high as the
\* templates, so the map of scores of a template (the result of
\* cv.matchTemplate) is a row, res[i] being the score at x = i - 1 in
\* hundredths, and the rectangle of a match at x with a template of width w
\* is <<x, 0, x + w, TplHeight>>.

TplHeight == 4

MaxRaw == 4

\* cv.minMaxLoc: the greatest score and the first place where it is
MaxVal(res) == SetMax({res[i] : i \in DOMAIN res})

MaxLoc(res) == (CHOOSE i \in DOMAIN res : res[i] = MaxVal(res) /\ \A j \in DOMAIN res : res[j] = MaxVal(res) => i <= j) - 1

\* cv.rectangle(res, (x, y), (x + tpl_w, y + tpl_h), 0, -1): the cells from
\* x to x + tpl_w, both included, are set to 0
Zeroed(res, x, tpl_w) == [i \in DOMAIN res |-> IF x <= i - 1 /\ i - 1 <= x + tpl_w THEN 0 ELSE res[i]]

\* the loop "while True" of _collect_inventory_matches for one template,
\* for a threshold above 0
RECURSIVE Peaks(_, _, _)
Peaks(res, tpl_w, threshold) ==
    IF MaxVal(res) < threshold THEN <<>>
    ELSE <<[score |-> MaxVal(res), x |-> MaxLoc(res), w |-> tpl_w]>>
         \o Peaks(Zeroed(res, MaxLoc(res), tpl_w), tpl_w, threshold)

\* the loop over the templates of an item
RECURSIVE RawMatches(_, _)
RawMatches(templates, threshold) ==
    IF templates = <<>> THEN <<>>
    ELSE Peaks(Head(templates).res, Head(templates).w, threshold)
         \o RawMatches(Tail(templates), threshold)

\* list.sort(key=score, reverse=True): stable, by non-increasing score
RECURSIVE Inserted(_, _)
Inserted(sorted, m) ==
    IF sorted = <<>> THEN <<m>>
    ELSE IF Head(sorted).score >= m.score THEN <<Head(sorted)>> \o Inserted(Tail(sorted), m)
    ELSE <<m>> \o sorted

RECURSIVE SortedDesc(_, _)
SortedDesc(todo, sorted) ==
    IF todo = <<>> THEN sorted ELSE SortedDesc(Tail(todo), Inserted(sorted, Head(todo)))

SideOf(m) == <<m.x, 0, m.x + m.w, TplHeight>>

\* _rect_iou as <<intersection, union>>, <<0, 1>> when it returns 0.0
RectIou(a, b) ==
    IF Min2(a[3], b[3]) <= Max2(a[1], b[1]) \/ Min2(a[4], b[4]) <= Max2(a[2], b[2])
    THEN <<0, 1>>
    ELSE IF Max2(0, a[3] - a[1]) * Max2(0, a[4] - a[2])
            + Max2(0, b[3] - b[1]) * Max2(0, b[4] - b[2])
            - (Min2(a[3], b[3]) - Max2(a[1], b[1])) * (Min2(a[4], b[4]) - Max2(a[2], b[2])) <= 0
    THEN <<0, 1>>
    ELSE <<(Min2(a[3], b[3]) - Max2(a[1], b[1])) * (Min2(a[4], b[4]) - Max2(a[2], b[2])),
           Max2(0, a[3] - a[1]) * Max2(0, a[4] - a[2])
           + Max2(0, b[3] - b[1]) * Max2(0, b[4] - b[2])
           - (Min2(a[3], b[3]) - Max2(a[1], b[1])) * (Min2(a[4], b[4]) - Max2(a[2], b[2]))>>

\* _rect_iou(a, b) > suppress_iou, suppress_iou in hundredths
Overlaps(a, b, suppress_iou) == RectIou(a, b)[1] * 100 > suppress_iou * RectIou(a, b)[2]

\* a filter that lets every match through
Filtered_all(matches, kept, suppress_iou, limit) == kept \o matches

\* the greedy filters of _collect_inventory_matches and of
\* match_inventory_regions: a match is kept unless it overlaps one kept
\* before; limit is max_per_item, None for no limit
RECURSIVE Filtered(_, _, _, _)
Filtered(matches, kept, suppress_iou, limit) ==
    IF matches = <<>> THEN kept
    ELSE IF \E i \in DOMAIN kept : Overlaps(SideOf(Head(matches)), SideOf(kept[i]), suppress_iou)
    THEN Filtered(Tail(matches), kept, suppress_iou, limit)
    ELSE IF limit # None /\ Len(kept) + 1 >= Val(limit) THEN Append(kept, Head(matches))
    ELSE Filtered(Tail(matches), Append(kept, Head(matches)), suppress_iou, limit)

\* _collect_inventory_matches, called without suppress_iou: 0.4
CollectInventoryMatches(templates, threshold, max_per_item) ==
    Filtered(SortedDesc(RawMatches(templates, threshold), <<>>), <<>>, 40, Some(max_per_item))

MatchesOf(item, found) == [i \in DOMAIN found |-> [item |-> item, score |-> found[i].score, x |-> found[i].x, w |-> found[i].w]]

\* the loop of match_inventory_regions over the items of the cache
RECURSIVE ItemMatches(_, _, _)
ItemMatches(items, threshold, max_per_item) ==
    IF items = <<>> THEN <<>>
    ELSE (IF Head(items).templates = <<>> THEN <<>>
          ELSE MatchesOf(Head(items).item,
                     CollectInventoryMatches(Head(items).templates, threshold, max_per_item)))
         \o ItemMatches(Tail(items), threshold, max_per_item)

match_inventory_regions(root, items, threshold, max_per_item, suppress_iou) ==
    IF ~root THEN <<>>
    ELSE Filtered(SortedDesc(ItemMatches(items, threshold, max_per_item), <<>>), <<>>,
                  suppress_iou, None)

\* maps of scores of a region six cells wide, for templates two and four
\* cells wide
ScoreMaps ==
    {[res |-> <<90, 50, 0, 0 - 20, 85>>, w |-> 2],
     [res |-> <<85, 85, 85, 85, 85>>, w |-> 2],
     [res |-> <<50, 90, 90, 50, 90>>, w |-> 2],
     [res |-> <<0, 0, 0, 0, 0>>, w |-> 2],
     [res |-> <<95, 0, 80>>, w |-> 4],
     [res |-> <<80, 80, 85>>, w |-> 4]}

TemplateSets == {<<>>} \cup {<<t>> : t \in ScoreMaps} \cup {<<t[1], t[2]>> : t \in ScoreMaps \X ScoreMaps}

InventoryItems ==
    {<<[item |-> N_ab, templates |-> t]>> : t \in TemplateSets}
    \cup {<<[item |-> N_ab, templates |-> t[1]], [item |-> N_abv, templates |-> <<t[2]>>]>> :
            t \in TemplateSets \X ScoreMaps}

MatchInventory ==
    /\ Uncalled
    /\ \E root \in BOOLEAN, items \in InventoryItems, threshold \in {50, 80},
          max_per_item \in {1, 3}, suppress_iou \in {0, 35} :
         last' = [op |-> "match_inventory_regions", root |-> root, items |-> items,
                  threshold |-> threshold, max_per_item |-> max_per_item,
                  suppress_iou |-> suppress_iou,
                  ret |-> match_inventory_regions(root, items, threshold, max_per_item,
                                                  suppress_iou),
                  err |-> ""]
    /\ UNCHANGED unmatched

MatchNext ==
    \/ DetectPotential
    \/ MatchItem
    \/ MatchInventory

MatchSpec == Init /\ [][MatchNext]_vars

\* The loop "while True" of _collect_inventory_matches step by step, for any
\* threshold: last holds the map of scores, the width of the template, the
\* threshold and the matches recorded.  raw grows with every turn of the
\* loop; the model keeps its first MaxRaw elements and whether the number of
\* turns taken is odd.

ScanInit ==
    /\ known = <<>>
    /\ known_keys = <<>>
    /\ known_order = <<>>
    /\ pending = <<>>
    /\ file = Complete(EmptyState)
    /\ tmp = None
    /\ pc = "idle"
    /\ clock = 0
    /\ NoCalls
    /\ Elsewhere
    /\ \E t \in ScoreMaps, threshold \in {0 - 10, 0, 50, 80, 90} :
         last = [op |-> "scan", at |-> "loop", res |-> t.res, w |-> t.w,
                 threshold |-> threshold, raw |-> <<>>, odd |-> FALSE, err |-> ""]

Scanning == last.op = "scan" /\ last.at = "loop"

\* if max_val < threshold: break
ScanBreak ==
    /\ Scanning
    /\ MaxVal(last.res) < last.threshold
    /\ last' = [last EXCEPT !.at = "done"]
    /\ UNCHANGED unmatched

\* raw.append(...); cv.rectangle(res, ...)
ScanPeak ==
    /\ Scanning
    /\ ~(MaxVal(last.res) < last.threshold)
    /\ last' = [last EXCEPT
                  !.raw = IF Len(@) < MaxRaw
                          THEN Append(@, [score |-> MaxVal(last.res), x |-> MaxLoc(last.res),
                                          w |-> last.w])
                          ELSE @,
                  !.res = Zeroed(@, MaxLoc(last.res), last.w),
                  !.odd = ~@]
    /\ UNCHANGED unmatched

ScanNext ==
    \/ ScanBreak
    \/ ScanPeak

\* the loop is not suspended: a turn that can be taken is taken
ScanSpec == ScanInit /\ [][ScanNext]_vars /\ WF_vars(ScanNext)

\* ------------------------------------------------------------------------
\* The cache of templates (template_manager.py).  A file of the tree is
\* [dir, kind, pot, mtime]: kind "name", "lp" or "item" in the directory of
\* an item, kind "global" with the potential pot for the files 1lp..4lp
\* directly under the root (dir ""); a template in the cache is the file it
\* was read from.

MaxFiles == 2

MaxTime == 5

ItemDirs == {"a", "b"}

\* _dir_mtime: the newest modification time of a file, 0.0 without files
DirMtime(t) == SetMax({0} \cup {f.mtime : f \in t.files})

FilesOf(t, d, kind) == {f \in t.files : f.dir = d /\ f.kind = kind}

\* the loop of _build_cache_if_needed over the directories of the items
ScannedItems(t) ==
    [d \in t.dirs |-> [name_scaled |-> FilesOf(t, d, "name"),
                       lp_scaled |-> FilesOf(t, d, "lp"),
                       inventory_scaled |-> FilesOf(t, d, "item")]]

ScannedInventory(t) ==
    [d \in {d \in t.dirs : FilesOf(t, d, "item") # {}} |-> FilesOf(t, d, "item")]

ScannedLpGlobal(t) ==
    [pot \in 1..4 |-> {f \in t.files : f.dir = "" /\ f.kind = "global" /\ f.pot = pot}]

\* a check that rebuilds at every scan
Stale_always(c, t) == TRUE

\* not (root_m == _CACHE.get("root_mtime") and _CACHE.get("items"))
Stale(c, t) == ~(DirMtime(t) = c.root_mtime /\ DOMAIN c.items # {})

\* _build_cache_if_needed at the time at: the cache after it and whether the
\* tree was scanned and the cache rebuilt
BuildCacheIfNeeded(c, t, at) ==
    IF ~t.root THEN [cache |-> c, rebuilt |-> FALSE]
    ELSE IF at - c.last_scan < RateLimit THEN [cache |-> c, rebuilt |-> FALSE]
    ELSE IF ~Stale(c, t) THEN [cache |-> [c EXCEPT !.last_scan = at], rebuilt |-> FALSE]
    ELSE [cache |-> [items |-> ScannedItems(t), inventory |-> ScannedInventory(t),
                     lp_global |-> ScannedLpGlobal(t), last_scan |-> at,
                     root_mtime |-> DirMtime(t)],
          rebuilt |-> TRUE]

\* an invalidation that keeps the time of the last scan
Invalidated_keepsscan(c) == [c EXCEPT !.items = <<>>, !.inventory = <<>>, !.root_mtime = 0]

\* invalidate_cache
Invalidated(c) ==
    [c EXCEPT !.items = <<>>, !.inventory = <<>>, !.last_scan = 0, !.root_mtime = 0]

\* item_dir and the files a save writes into it
Saved(t, d, kinds, at) ==
    [root |-> TRUE, dirs |-> t.dirs \cup {d},
     files |-> t.files \cup {[dir |-> d, kind |-> k, pot |-> 0, mtime |-> at] : k \in kinds}]

CacheInit ==
    /\ known = <<>>
    /\ known_keys = <<>>
    /\ known_order = <<>>
    /\ pending = <<>>
    /\ file = Complete(EmptyState)
    /\ tmp = None
    /\ pc = "idle"
    /\ clock = 0
    /\ last = [op |-> "init", err |-> ""]
    /\ NoCalls
    /\ backups = <<>>
    /\ other = None
    /\ stats = <<>>
    /\ cache = EmptyCache
    /\ tree \in {[root |-> FALSE, dirs |-> {}, files |-> {}],
                 [root |-> TRUE, dirs |-> {}, files |-> {}],
                 [root |-> TRUE, dirs |-> {"a"}, files |-> {}],
                 [root |-> TRUE, dirs |-> {},
                  files |-> {[dir |-> "", kind |-> "global", pot |-> 1, mtime |-> 1]}]}
    /\ time = RateLimit
    /\ running = FALSE
    /\ listeners = [i \in 1..MaxLoops |-> "none"]
    /\ caller = "idle"

Saves == {"save_samples", "save_lp_sample", "save_inventory_sample"}

\* what the functions of template_manager.py leave alone
untouched == <<known, known_keys, known_order, pending, file, tmp, pc, clock,
               lockVars, migVars, recVars, hkVars>>

\* the saves: the files are written, then the cache is invalidated
SaveOn(op, kinds) ==
    /\ Cardinality(tree.files) < MaxFiles
    /\ \E d \in ItemDirs :
         /\ tree' = Saved(tree, d, kinds, time)
         /\ last' = [op |-> op, dir |-> d, kinds |-> kinds, at |-> time,
                      scanned |-> cache.last_scan, err |-> ""]
    /\ cache' = Invalidated(cache)
    /\ UNCHANGED <<time, untouched>>

SaveSamples == \E kinds \in {{"name"}, {"name", "lp"}} : SaveOn("save_samples", kinds)

SaveLpSample == SaveOn("save_lp_sample", {"lp"})

SaveInventorySample == SaveOn("save_inventory_sample", {"item"})

InvalidateCache ==
    /\ last.op # "invalidate_cache"
    /\ cache' = Invalidated(cache)
    /\ last' = [op |-> "invalidate_cache", err |-> ""]
    /\ UNCHANGED <<tree, time, untouched>>

\* list_all_items, list_items_missing_inventory and the match functions
\* begin with _build_cache_if_needed
LoadTemplates ==
    /\ \E built \in {BuildCacheIfNeeded(cache, tree, time)} :
         /\ cache' = built.cache
         /\ last' = [op |-> "load", rebuilt |-> built.rebuilt, at |-> time,
                      prior |-> IF last.op \in Saves THEN last.scanned ELSE cache.last_scan,
                      err |-> ""]
    /\ UNCHANGED <<tree, time, untouched>>

\* a quarter of a second passes
Tick ==
    /\ time < MaxTime
    /\ time' = time + 1
    /\ UNCHANGED <<cache, tree, last, untouched>>

\* the user puts the picture of a potential under the root
DropGlobal ==
    /\ tree.root
    /\ Cardinality(tree.files) < MaxFiles
    /\ \E pot \in {1, 4} :
         tree' = [tree EXCEPT !.files = @ \cup {[dir |-> "", kind |-> "global", pot |-> pot,
                                                  mtime |-> time]}]
    /\ UNCHANGED <<cache, time, last, untouched>>

CacheNext ==
    \/ SaveSamples
    \/ SaveLpSample
    \/ SaveInventorySample
    \/ InvalidateCache
    \/ LoadTemplates
    \/ Tick
    \/ DropGlobal

CacheSpec == CacheInit /\ [][CacheNext]_vars

\* ------------------------------------------------------------------------
\* The hotkey listener of the worker (worker.py).  A thread of _hotkey_loop
\* is "none" before it is started, "new" once started, "listening" while it
\* holds the hotkeys it registered and sleeps in its loop, "stopping" once it
\* has read _running as false and left the loop, and "done" when its finally
\* block has removed the hotkeys.  The caller is the thread of the window.

\* what the worker leaves alone
offstage == <<known, known_keys, known_order, pending, file, tmp, pc, clock, last,
              lockVars, migVars, recVars, tplVars>>

\* the listeners that hold registered hotkeys
Holding == {i \in 1..MaxLoops : listeners[i] \in {"listening", "stopping"}}

HasLoop == \E i \in 1..MaxLoops : listeners[i] = "none"

NextLoop ==
    CHOOSE i \in 1..MaxLoops :
        listeners[i] = "none" /\ \A j \in 1..(i - 1) : listeners[j] # "none"

\* OCRWorker.start: nothing when _running is set, else it is set and a
\* thread of _hotkey_loop is started
Started ==
    IF running THEN UNCHANGED <<running, listeners>>
    ELSE /\ running' = TRUE
         /\ listeners' = [listeners EXCEPT ![NextLoop] = "new"]

Start ==
    /\ caller = "idle" /\ HasLoop
    /\ Started
    /\ UNCHANGED <<caller, offstage>>

\* OCRWorker.stop
Stop ==
    /\ caller = "idle"
    /\ running' = FALSE
    /\ UNCHANGED <<listeners, caller, offstage>>

\* OCRWorker.update_settings up to its sleep: self.stop()
UpdateSettings ==
    /\ caller = "idle" /\ HasLoop
    /\ running' = FALSE
    /\ caller' = "pause"
    /\ UNCHANGED <<listeners, offstage>>

\* the end of update_settings: self.start() after time.sleep(0.15), by when
\* a loop that sleeps 0.1 s has woken up, read _running and removed its
\* hotkeys
Resume ==
    /\ caller = "pause"
    /\ \A i \in 1..MaxLoops : listeners[i] \in {"none", "done"}
    /\ Started
    /\ caller' = "idle"
    /\ UNCHANGED offstage

\* _hotkey_loop registers its hotkeys and enters the loop
Register(i) ==
    /\ listeners[i] = "new"
    /\ listeners' = [listeners EXCEPT ![i] = "listening"]
    /\ UNCHANGED <<running, caller, offstage>>

\* keyboard.add_hotkey raises for the first hotkey: the finally block runs
\* with no handle, the thread ends and _running stays as it is
RegisterFails(i) ==
    /\ listeners[i] = "new"
    /\ listeners' = [listeners EXCEPT ![i] = "done"]
    /\ UNCHANGED <<running, caller, offstage>>

\* while self._running: the loop wakes up and reads _running as false (a
\* loop that reads it as true sleeps again)
Wake(i) ==
    /\ listeners[i] = "listening" /\ ~running
    /\ listeners' = [listeners EXCEPT ![i] = "stopping"]
    /\ UNCHANGED <<running, caller, offstage>>

\* the finally block: keyboard.remove_hotkey for every handle
Unregister(i) ==
    /\ listeners[i] = "stopping"
    /\ listeners' = [listeners EXCEPT ![i] = "done"]
    /\ UNCHANGED <<running, caller, offstage>>

HotkeyNext ==
    \/ Start
    \/ Stop
    \/ UpdateSettings
    \/ Resume
    \/ \E i \in 1..MaxLoops :
         \/ Register(i)
         \/ RegisterFails(i)
         \/ Wake(i)
         \/ Unregister(i)

HotkeySpec == Init /\ [][HotkeyNext]_vars

\* ------------------------------------------------------------------------
\* Properties

\* C3: the display order known_order has no duplicates and its elements are
\* exactly the keys of the known mapping, in every state reachable from the
\* empty store by the six operations, failed ones included
C3_OrderListsEachKeyOnce ==
    /\ \A i, j \in DOMAIN known_order : known_order[i] = known_order[j] => i = j
    /\ SeqToSet(known_order) = DOMAIN known

\* a rename gave an entry a new key while another entry was listed
C3_Witness ==
    /\ last.op = "edit_known" /\ last.err = ""
    /\ last.ret # Some(last.key)
    /\ Len(known_order) >= 2

\* C2: edit_known with a name whose canonical form is the key of a different
\* entry fails and leaves every field of both entries, the mapping and the
\* display order as they were
C2_FailedRenameChangesNothing ==
    [][(last'.op = "edit_known" /\ last'.err = "ValueError")
       => UNCHANGED <<known, known_keys, known_order>>]_vars

\* C4: no two distinct entries have the same canonical display name; stated
\* here for the entries that have a name (an entry added without a name has
\* the empty canonical name, and several of them may exist)
C4_CanonicalNamesUnique ==
    \A k1, k2 \in DOMAIN known :
        (k1 # k2 /\ Norm(known[k1].name) # <<>>)
        => Norm(known[k1].name) # Norm(known[k2].name)

HasPrice(entry) == \E p \in LP_RANGE : entry.price[p] # None

\* C5: no pending record has the canonical name of a known entry that holds
\* a price in some slot
C5_NoPendingForPricedName ==
    \A i \in DOMAIN pending, k \in DOMAIN known :
        HasPrice(known[k]) => Norm(pending[i].name) # k

\* the name is the key or the canonical display name of a known entry
KnownName(name) ==
    \/ Norm(name) \in DOMAIN known
    \/ \E k \in DOMAIN known : Norm(known[k].name) = Norm(name)

PendingOncePerName ==
    \A i, j \in DOMAIN pending :
        Norm(pending[i].name) = Norm(pending[j].name) => i = j

\* C6 as stated: the pending list holds at most one record of a canonical
\* name, and ensure_pending adds no record for a name that is a known entry
C6_Original ==
    /\ []PendingOncePerName
    /\ [][(last'.op = "ensure_pending" /\ KnownName(last'.name))
          => pending' = pending]_vars

\* C6: the pending list holds at most one record of a canonical name, and
\* ensure_pending adds no record for a name whose canonical form is not
\* empty and is the key or the canonical display name of a known entry
C6_PendingOncePerName ==
    /\ []PendingOncePerName
    /\ [][(last'.op = "ensure_pending" /\ Norm(last'.name) # <<>>
           /\ KnownName(last'.name))
          => pending' = pending]_vars

\* ensure_pending declined a name that is a key while a record was pending
C6_Witness ==
    /\ last.op = "ensure_pending" /\ last.ret = FALSE
    /\ Norm(last.name) # <<>> /\ Norm(last.name) \in DOMAIN known
    /\ Len(pending) >= 1

\* the step is a call of add_known with the arguments of the call before it
AddKnownAgain ==
    /\ last.op = "add_known" /\ last'.op = "add_known"
    /\ clock' = clock + 1
    /\ last'.name = last.name
    /\ last'.price = last.price
    /\ last'.potential = last.potential

SameAsOnce ==
    /\ UNCHANGED <<known, known_keys, known_order, pending>>
    /\ last'.ret = last.ret
    /\ last'.err = last.err

\* C7 as stated: for every name, the empty one included, a second add_known
\* with the same arguments leaves entries, display order and pending list
\* as the first call left them and returns the same key
C7_Original == [][AddKnownAgain => SameAsOnce]_vars

\* C7: for every name whose canonical form is not empty, a second add_known
\* with the same arguments leaves entries, display order and pending list
\* as the first call left them and ends as the first did (the same key, or
\* the same error)
C7_AddKnownIdempotent ==
    [][(AddKnownAgain /\ Norm(last.name) # <<>>) => SameAsOnce]_vars

\* add_known returned the key of an entry that holds what it was given
C7_Witness ==
    /\ last.op = "add_known" /\ last.err = "" /\ last.price # None
    /\ Norm(last.name) # <<>>
    /\ Val(last.ret) = Norm(last.name)
    /\ clock >= 2
    /\ known[Val(last.ret)].updated_at < clock

\* the step is a get_price for the name and potential of the set_price that
\* returned before it
GetAfterSet ==
    /\ last.op = "set_price" /\ last.err = ""
    /\ last'.op = "get_price"
    /\ last'.name = last.name
    /\ last'.potential = last.potential

PriceShown == last'.value = [comment |-> None, price |-> Some(Val(last.price).n)]

\* C1 as stated: for every name, set_price(name, price, potential) and then
\* get_price(name, potential) returns that price
C1_Original == [][GetAfterSet => PriceShown]_vars

Named(entry) == CleanForMatch(entry.name) # <<>>

\* the entry set_price wrote is the one the name resolves to: the cleaned
\* name is not empty, the entry's display name has the canonical form of the
\* name, and every other entry with a name scores lower for the name
ResolvesToWritten ==
    LET key == Val(last.ret)
        lines == <<last.name>>
        own == EntryScore(known[key], lines, last.potential)
    IN /\ CleanForMatch(last.name) # <<>>
       /\ Norm(known[key].name) = Norm(last.name)
       /\ \A k \in DOMAIN known \ {key} :
              Named(known[k]) => EntryScore(known[k], lines, last.potential) < own

\* C1: set_price(name, price, potential) and then get_price(name, potential)
\* returns that price when the cleaned form of the name is not empty, the
\* entry's display name has the canonical form of the name and every other
\* entry with a name scores lower than that entry for the name
C1_RoundTrip == [][(GetAfterSet /\ ResolvesToWritten) => PriceShown]_vars

\* get_price showed the price while another entry with a name was stored
C1_Witness ==
    /\ last.op = "get_price" /\ last.rec # None
    /\ last.potential = Some(LP_MAX)
    /\ last.value.price = Some(70)
    /\ Norm(last.name) = Val(last.rec).key
    /\ \E k \in DOMAIN known : k # Val(last.rec).key /\ Named(known[k])

\* the lookup last made is find_best([name of the entry of key k]) with the
\* default threshold and no potential
LookedUpByName(k) ==
    /\ last.op = "find_best" /\ last.potential = None
    /\ last.lines = <<known[k].name>>

Returned(k) == last.rec # None /\ Val(last.rec).key = k

\* C8 as stated: find_best with the exact display name of a known entry and
\* the default threshold returns that entry with score at least 90
C8_Original ==
    \A k \in DOMAIN known :
        LookedUpByName(k) => (Returned(k) /\ last.score >= 90 * ScoreUnit)

\* no entry that precedes the entry of key k in the iteration order of the
\* mapping scores 100 for the display name of that entry
NoEarlierRival(k) ==
    \A i, j \in DOMAIN known_keys :
        (known_keys[j] = k /\ i < j /\ Named(known[known_keys[i]]))
        => EntryScore(known[known_keys[i]], <<known[k].name>>, None) < 100 * ScoreUnit

\* C8: find_best with the exact display name of a known entry whose cleaned
\* name is not empty, and the default threshold, returns an entry with score
\* at least 90; it is that same entry unless an entry that precedes it in
\* the iteration order of the mapping also scores 100 for the name
C8_FindBestReflexive ==
    \A k \in DOMAIN known :
        (LookedUpByName(k) /\ Named(known[k]))
        => /\ last.rec # None
           /\ last.score >= 90 * ScoreUnit
           /\ NoEarlierRival(k) => Returned(k)

\* find_best returned the entry asked for by name although a later entry
\* scores 100 for that name too
C8_Witness ==
    \E k, r \in DOMAIN known :
        /\ LookedUpByName(k) /\ Returned(k) /\ r # k
        /\ Named(known[r])
        /\ EntryScore(known[r], last.lines, None) = 100 * ScoreUnit

StrictLookup ==
    last.op = "find_best" /\ last.potential # None /\ last.strict_potential

HintedLookup ==
    last.op = "find_best" /\ last.potential # None /\ ~last.strict_potential

\* some line looked up has a cleaned form, and the entry of key k has a name,
\* no data in the hinted slot, and reaches the default threshold for the lines
Lacking(k) ==
    /\ MapNonEmpty(last.lines, "clean") # <<>>
    /\ Named(known[k])
    /\ ~EntryHasLp(known[k], Val(last.potential))
    /\ EntryScore(known[k], last.lines, last.potential) >= 80 * ScoreUnit

\* C9: find_best with a potential and strict_potential never returns an
\* entry without a price or comment in that slot; without strict_potential
\* such an entry is not left out: an entry scoring at least as high is
\* returned
C9_StrictExcludesEmptySlot ==
    /\ (StrictLookup /\ last.rec # None)
       => EntryHasLp(Val(last.rec).entry, Val(last.potential))
    /\ HintedLookup
       => \A k \in DOMAIN known :
              Lacking(k)
              => /\ last.rec # None
                 /\ last.score >= EntryScore(known[k], last.lines, last.potential)

\* a strict lookup passed over an entry that matches the lines and has no
\* data in the slot
C9_Witness ==
    /\ StrictLookup
    /\ \E k \in DOMAIN known : Lacking(k) /\ ~Returned(k)

\* C10: at every step of a save, and after the process stops at any of them,
\* the price file is missing (it was never written) or holds a complete
\* state; it changes only by becoming the complete state being saved
C10_AtomicSave ==
    /\ [](file = None \/ IsComplete(file))
    /\ [][file' # file => file' = Complete(State)]_vars

\* the process stopped while the temp file was partly written, the price
\* file still holding the state saved before
C10_Witness ==
    /\ pc = "crashed"
    /\ tmp # None /\ ~IsComplete(tmp)
    /\ file # None /\ IsComplete(file)
    /\ Val(file).st # Val(tmp).st

InCall(t) == ~At(t, "idle")

\* C11: the calls of concurrent threads do not overlap: at most one thread
\* is between taking and releasing the lock; what a reader copies is the
\* state the calls made so far give when made one after another; and when no
\* call is running, self._state is that state, and the price file holds a
\* complete state
C11_CallsAreSerial ==
    /\ [](/\ \A t1, t2 \in Threads : (InCall(t1) /\ InCall(t2)) => t1 = t2
          /\ (\A t \in Threads : ~InCall(t)) => State = serial
          /\ IsComplete(file))
    /\ [][\A t \in Threads :
            th'[t].seen # th[t].seen => th'[t].seen = Some(Snapshot(serial))]_vars

\* a thread is idle while the other is in the middle of its change of
\* self._state, the mapping of entries ahead of the display order; a reader
\* has made a copy before
C11_Witness ==
    \E t1, t2 \in Threads :
        /\ At(t1, "mutating") /\ At(t2, "idle")
        /\ SeqToSet(known_order) # DOMAIN known
        /\ th[t2].seen # None

\* the layout the store refuses: the records are a list, or an entry of the
\* mapping carries a potential
LegacyLayout(doc) ==
    \/ "records" \in DOMAIN doc
    \/ /\ "known" \in DOMAIN doc
       /\ \E k \in DOMAIN doc.known : "potential" \in DOMAIN doc.known[k]

\* C12: opening the store on a file of the legacy layout (the records are a
\* list, or a mapping with an entry that has a potential field) fails with an
\* error, gives no store that can be used, and leaves the file as it was.
C12_LegacyOpenFails ==
    [][(last'.op = "open" /\ clock' # clock /\ file # None /\ LegacyLayout(Val(file).st))
        => /\ last'.err = "RuntimeError"
           /\ pc' = "closed"
           /\ file' = file
           /\ tmp' = tmp
           /\ State' = State]_vars

C12_Witness ==
    /\ last.op = "open" /\ last.err = "RuntimeError"
    /\ pc = "closed"
    /\ file # None /\ "known" \in DOMAIN Val(file).st
    /\ LegacyLayout(Val(file).st)

\* the records of a legacy list that are objects
Objects(rs) == {i \in DOMAIN rs : rs[i].dict}

\* the key under which the record at i is grouped: its canonical name, or
\* "unnamed-N" for a record without one, N being the number of keys before it
RECURSIVE KeyAt(_, _)
KeyAt(rs, i) ==
    IF Norm(rs[i].name) # <<>> THEN Norm(rs[i].name)
    ELSE <<"unnamed-", ToString(Cardinality({KeyAt(rs, j) : j \in {d \in Objects(rs) : d < i}}))>>

\* the first record grouped under a key
FirstAt(rs, k) == CHOOSE i \in Objects(rs) : KeyAt(rs, i) = k /\ \A j \in Objects(rs) : KeyAt(rs, j) = k => i <= j

\* the records that give the content of slot p of key k
Targets(rs, k, p) ==
    {i \in Objects(rs) : /\ KeyAt(rs, i) = k
                         /\ MigSlot(rs[i].potential) = p
                         /\ CoercePrice(rs[i].price) # <<None, None>>}

\* the largest index of a set of indices
LastOf(T) == CHOOSE i \in T : \A j \in T : j <= i

\* the document migrate wrote
Migrated == IF last.output = "input" THEN Val(file).st ELSE Val(other).st

\* what C13 says of the records rs and the document out, as amended
GroupedBy(rs, out) ==
    /\ DOMAIN out.known = {KeyAt(rs, i) : i \in Objects(rs)}
    /\ SeqToSet(out.known_order) = DOMAIN out.known
    /\ \A a, b \in DOMAIN out.known_order :
         a < b => FirstAt(rs, out.known_order[a]) < FirstAt(rs, out.known_order[b])
    /\ \A k \in DOMAIN out.known : \A p \in 0..4 :
         <<out.known[k].price[p], out.known[k].comment[p]>> =
            IF Targets(rs, k, p) = {} THEN <<None, None>>
            ELSE CoercePrice(rs[LastOf(Targets(rs, k, p))].price)

\* what C13 says as stated: the keys are the canonical names, the last
\* record of a name and slot gives the slot
GroupedByName(rs, out) ==
    /\ DOMAIN out.known = {Norm(rs[i].name) : i \in Objects(rs)}
    /\ SeqToSet(out.known_order) = DOMAIN out.known
    /\ Len(out.known_order) = Cardinality(DOMAIN out.known)
    /\ \A i \in Objects(rs) :
         (\A j \in Objects(rs) :
             (Norm(rs[j].name) = Norm(rs[i].name)
              /\ MigSlot(rs[j].potential) = MigSlot(rs[i].potential)) => j <= i)
         => /\ Norm(rs[i].name) \in DOMAIN out.known
            /\ <<out.known[Norm(rs[i].name)].price[MigSlot(rs[i].potential)],
                 out.known[Norm(rs[i].name)].comment[MigSlot(rs[i].potential)]>>
               = CoercePrice(rs[i].price)

\* C13 (amended): migrate of a legacy list gives exactly one entry per key,
\* the key of a record being its canonical name or, for a record without a
\* name, "unnamed-N" with N the number of entries grouped before it;
\* known_order lists each key once in order of first appearance; the slot is
\* given by the potential (missing or unparseable 0, clamped into 0..4) and
\* holds the numeric price or else the text as comment of the last record of
\* that key and slot whose price is neither missing nor blank, and nothing
\* when there is no such record.
C13_MigrateGroups ==
    [][(last'.op = "migrate" /\ clock' # clock /\ last'.err = ""
        /\ "records" \in DOMAIN last'.input)
       => GroupedBy(last'.input.records, Migrated')]_vars

C13_Witness ==
    /\ last.op = "migrate" /\ last.err = "" /\ last.output = "input"
    /\ "records" \in DOMAIN last.input
    /\ \E i, j \in Objects(last.input.records) :
         /\ i < j
         /\ j \in Targets(last.input.records, N_ab, 1)
         /\ i \in Targets(last.input.records, N_ab, 1)
         /\ last.input.records[i].price # last.input.records[j].price
    /\ N_ab \in DOMAIN Val(file).st.known
    /\ Val(file).st.known[N_ab].price[1] = Some(15)

\* C13 as stated: one entry per canonical name, the last record of a name
\* and slot gives the content of the slot.
C13_Original ==
    [][(last'.op = "migrate" /\ clock' # clock /\ last'.err = ""
        /\ "records" \in DOMAIN last'.input)
       => GroupedByName(last'.input.records, Migrated')]_vars

\* C14: the migration of a file that already has the new layout changes
\* nothing: the file is as it was and neither a backup nor another file is
\* written; so a second migration of a legacy file leaves the file the first
\* one wrote.
C14_MigrateTwice ==
    /\ [][(last'.op = "migrate" /\ clock' # clock
           /\ file # None /\ "known_keys" \in DOMAIN Val(file).st)
          => /\ last'.err = ""
             /\ file' = file
             /\ backups' = backups
             /\ tmp' = tmp
             /\ other' = other]_vars
    /\ [][(last.op = "migrate" /\ last.output = "input" /\ last.err = ""
           /\ "records" \in DOMAIN last.input
           /\ last'.op = "migrate" /\ clock' # clock)
          => file' = file /\ backups' = backups]_vars

C14_Witness ==
    /\ clock = 2
    /\ last.op = "migrate" /\ last.output = "input" /\ last.backup
    /\ "known_keys" \in DOMAIN last.input
    /\ Len(backups) = 1
    /\ "records" \in DOMAIN Val(backups[1]).st
    /\ Len(Val(backups[1]).st.records) = 2
    /\ file # None /\ Val(file).st = last.input

\* C15: when a price check matches an item and the entry found for it holds
\* a price or a comment in the slot of the detected potential, the text
\* emitted for the overlay shows that price or comment and not the
\* placeholder for an item that is not in the table.
C15_OverlayShowsPrice ==
    (/\ last.op = "trigger" /\ last.emitted
     /\ last.text.rec # None
     /\ EntryHasLp(Val(last.text.rec).entry, last.text.lp))
    => /\ last.text.second # Placeholder
       /\ last.text.second
            = Second(IF LpDisplayValue(Val(last.text.rec).entry, last.text.lp).comment # None
                     THEN Some(Text(Val(LpDisplayValue(Val(last.text.rec).entry, last.text.lp).comment)))
                     ELSE Some(Num(Val(LpDisplayValue(Val(last.text.rec).entry, last.text.lp).price))))

FailureReasons == {"no_templates", "tl_fail", "br_window_fail", "br_fail", "geometry_fail"}

\* C16: after every call of corner detection, a rectangle is returned
\* exactly when the result of the diagnostics record is "ok", and the rect of
\* the record is then the rectangle returned; after a failure nothing is
\* returned, the result is a failure reason and the record has no rect, not
\* even that of an earlier call that succeeded.
C16_DiagnosticsAgree ==
    last.op = "detect" =>
       /\ (last.ret # None) <=> (stats.result = "ok")
       /\ last.ret # None => ("rect" \in DOMAIN stats /\ stats.rect = Val(last.ret))
       /\ last.ret = None => (stats.result \in FailureReasons /\ "rect" \notin DOMAIN stats)

C16_Witness ==
    /\ last.op = "detect"
    /\ last.ret = None
    /\ stats.result = "geometry_fail"
    /\ last.had_rect

\* the best score among scores that are there, 0 when there is none
TopScore(S) == SetMax({0} \cup {Val(x) : x \in S \ {None}})

\* C17: detect_potential_global returns a slot in 0..4: the slot among 1..4
\* with the highest score exactly when that score is at least the threshold
\* or at least max(0.78, threshold - 0.08), and otherwise slot 0 with the
\* best score seen (a score at the relaxed bound is accepted, one just below
\* is not).
C17_PotentialAccepted ==
    last.op = "detect_potential_global" =>
      /\ last.ret.pot \in 0..4
      /\ last.ret.score = TopScore({last.scores[p] : p \in 1..4})
      /\ IF \/ last.ret.score >= last.threshold
            \/ last.ret.score >= Max2(78, last.threshold - 8)
         THEN /\ last.ret.pot \in 1..4
              /\ last.scores[last.ret.pot] = Some(last.ret.score)
         ELSE last.ret.pot = 0

C17_Witness ==
    /\ last.op = "detect_potential_global"
    /\ last.threshold = 90
    /\ last.ret = [pot |-> 3, score |-> 82]
    /\ last.scores[1] = Some(81)
    /\ last.scores[2] = None

\* C18: match_item_by_templates returns the item with the highest score,
\* with that score, exactly when the score is at least the threshold or at
\* least max(0.72, threshold - 0.07); a best score below both, or no item
\* with a positive score, gives no match.
C18_ItemAccepted ==
    (last.op = "match_item_by_templates" /\ last.root) =>
      IF /\ TopScore({last.items[i].score : i \in DOMAIN last.items}) > 0
         /\ \/ TopScore({last.items[i].score : i \in DOMAIN last.items}) >= last.threshold
            \/ TopScore({last.items[i].score : i \in DOMAIN last.items})
                 >= Max2(72, last.threshold - 7)
      THEN /\ last.ret # None
           /\ Val(last.ret)[2] = TopScore({last.items[i].score : i \in DOMAIN last.items})
           /\ \E i \in DOMAIN last.items :
                /\ last.items[i].name = Val(last.ret)[1]
                /\ last.items[i].score = Some(Val(last.ret)[2])
      ELSE last.ret = None

C18_Witness ==
    /\ last.op = "match_item_by_templates" /\ last.root
    /\ last.threshold = 85
    /\ Len(last.items) = 2
    /\ last.items[1].score = Some(77)
    /\ last.ret = Some(<<N_abv, 78>>)

\* C19: every list match_inventory_regions returns is in the order of
\* non-increasing score, and no two rectangles of it, of one item or of two,
\* overlap with an intersection over union above suppress_iou.
C19_SortedAndApart ==
    last.op = "match_inventory_regions" =>
      /\ \A i, j \in DOMAIN last.ret : i < j => last.ret[i].score >= last.ret[j].score
      /\ \A i, j \in DOMAIN last.ret :
           i # j => RectIou(SideOf(last.ret[i]), SideOf(last.ret[j]))[1] * 100
                      <= last.suppress_iou * RectIou(SideOf(last.ret[i]), SideOf(last.ret[j]))[2]

C19_Witness ==
    /\ last.op = "match_inventory_regions"
    /\ Len(last.items) = 2
    /\ Len(last.ret) >= 2
    /\ \E i, j \in DOMAIN last.ret : last.ret[i].item # last.ret[j].item
    /\ Len(last.ret) < Len(ItemMatches(last.items, last.threshold, last.max_per_item))
    /\ \E i, j \in DOMAIN last.ret :
         RectIou(SideOf(last.ret[i]), SideOf(last.ret[j]))[1] > 0

\* C20: the loop that takes the peaks of a template (take the best peak,
\* record it, set its neighbourhood to zero, again) ends after finitely many
\* turns, for every map of scores, template and threshold.
C20_ScanEnds == <>(last.op = "scan" /\ last.at = "done")

\* the list of the cache in which a file of a kind of an item is kept
SlotOf(kind) ==
    IF kind = "name" THEN "name_scaled" ELSE IF kind = "lp" THEN "lp_scaled"
    ELSE "inventory_scaled"

\* C21: after a save of a template has completed, the next load of the
\* templates rebuilds the cache from the tree and the cache has the file
\* saved, also when the load comes less than 0.5 s after the scan before.
C21_LoadAfterSave ==
    [][(last.op \in Saves /\ last'.op = "load")
       => /\ last'.rebuilt
          /\ cache'.items = ScannedItems(tree)
          /\ \A k \in last.kinds :
               [dir |-> last.dir, kind |-> k, pot |-> 0, mtime |-> last.at]
                  \in cache'.items[last.dir][SlotOf(k)]]_vars

C21_Witness ==
    /\ last.op = "load" /\ last.rebuilt
    /\ last.prior > 0 /\ last.at - last.prior < RateLimit
    /\ \E d \in DOMAIN cache.items : \E f \in cache.items[d].inventory_scaled :
         f.mtime = last.at

\* C23: after invalidate_cache the cache holds no template of any role,
\* neither of the names of the items, nor of their icons, nor of the
\* potentials.
C23_NoTemplateLeft ==
    (last.op = "invalidate_cache" \/ last.op \in Saves) =>
       /\ DOMAIN cache.items = {}
       /\ DOMAIN cache.inventory = {}
       /\ \A pot \in DOMAIN cache.lp_global : cache.lp_global[pot] = {}

\* C24: a load scans the tree and replaces the cache exactly when the root
\* exists, the scan recorded last is at least 0.5 s old (an invalidation
\* records none) and the newest modification time differs from the cached
\* one or the cache holds no item; every other load leaves the templates of
\* the cache as they are.
C24_RebuildWhenStale ==
    [][LoadTemplates =>
         /\ last'.rebuilt <=>
               /\ tree.root
               /\ time - cache.last_scan >= RateLimit
               /\ (DirMtime(tree) # cache.root_mtime \/ DOMAIN cache.items = {})
         /\ last'.rebuilt =>
               /\ cache'.items = ScannedItems(tree)
               /\ cache'.root_mtime = DirMtime(tree)
               /\ cache'.last_scan = time
         /\ ~last'.rebuilt => cache' = [cache EXCEPT !.last_scan = cache'.last_scan]]_vars

C24_Witness ==
    /\ last.op = "load" /\ ~last.rebuilt
    /\ last.prior >= RateLimit /\ last.at - last.prior >= RateLimit
    /\ cache.last_scan = last.at
    /\ DOMAIN cache.items # {}
    /\ cache.root_mtime = DirMtime(tree)

\* C24 as stated: a load rebuilds only when the newest modification time
\* differs from the cached one or the cache was invalidated.
C24_Original ==
    [][(LoadTemplates /\ last'.rebuilt)
         => (DirMtime(tree) # cache.root_mtime \/ cache.last_scan = 0)]_vars

\* C22: whenever corner detection returns a rectangle, the record has
\* tl_score >= tl_threshold_used and br_score >= br_threshold_used, where
\* tl_threshold_used is the threshold asked for or max(0.52, threshold - 0.08)
\* and br_threshold_used is tl_threshold_used or
\* max(0.52, tl_threshold_used - 0.05); hence
\* br_threshold_used <= tl_threshold_used <= threshold.
C22_ThresholdsUsed ==
    (last.op = "detect" /\ last.ret # None) =>
       /\ stats.tl_score >= stats.tl_threshold_used
       /\ stats.br_score >= stats.br_threshold_used
       /\ stats.tl_threshold_used \in {stats.threshold, Max2(52, stats.threshold - 8)}
       /\ stats.br_threshold_used \in
             {stats.tl_threshold_used, Max2(52, stats.tl_threshold_used - 5)}
       /\ stats.br_threshold_used <= stats.tl_threshold_used
       /\ stats.tl_threshold_used <= stats.threshold

C22_Witness ==
    /\ last.op = "detect" /\ last.ret # None
    /\ stats.tl_score < stats.threshold
    /\ stats.tl_threshold_used = Max2(52, stats.threshold - 8)
    /\ stats.br_score < stats.tl_threshold_used
    /\ stats.br_threshold_used = Max2(52, stats.tl_threshold_used - 5)

\* the step is a call of the operation op that returned
CallReturned(op) == clock' = clock + 1 /\ last'.op = op /\ last'.err = ""

\* the step is a call of the operation op that raised
CallRaised(op) == clock' = clock + 1 /\ last'.op = op /\ last'.err # ""

\* the pending records that do not have the canonical name
PendingOthers(canonical) ==
    LET Kept(r) == canonical = <<>> \/ Norm(r.name) # canonical
    IN SelectSeq(pending, Kept)

\* C25: set_price(name, price, p) changes only slot p of the entry of the
\* canonical name (the price is set, the comment made absent) and the time
\* of its update, appends the key to the display order only when the entry
\* is new, and removes only the pending records of that canonical name;
\* every other entry, every other slot, the name and the notes of the entry
\* and every other pending record are as before.
C25_SetPriceFrame ==
    [][CallReturned("set_price") =>
         LET key == Val(last'.ret)
             p == IF last'.potential = None THEN 0 ELSE Val(last'.potential)
             price == Val(last'.price).n
         IN /\ DOMAIN known' = DOMAIN known \cup {key}
            /\ \A k \in DOMAIN known \ {key} : known'[k] = known[k]
            /\ known'[key].price[p] = Some(price)
            /\ known'[key].comment[p] = None
            /\ \A q \in LP_RANGE \ {p} :
                 /\ known'[key].price[q] = (IF key \in DOMAIN known THEN known[key].price[q] ELSE None)
                 /\ known'[key].comment[q] = (IF key \in DOMAIN known THEN known[key].comment[q] ELSE None)
            /\ key \in DOMAIN known =>
                 /\ known'[key].name = known[key].name
                 /\ known'[key].notes = known[key].notes
                 /\ known'[key].created_at = known[key].created_at
                 /\ known_order' = known_order
                 /\ known_keys' = known_keys
            /\ key \notin DOMAIN known =>
                 /\ known_order' = Append(known_order, key)
                 /\ known_keys' = Append(known_keys, key)
            /\ pending' = PendingOthers(Norm(last'.name))]_vars

\* set_price wrote a slot of an entry that was there, with a price in another
\* slot, while a record of another name is pending
C25_Witness ==
    /\ last.op = "set_price" /\ last.err = ""
    /\ pending # <<>>
    /\ \E k \in DOMAIN known :
         /\ last.ret = Some(k)
         /\ known[k].created_at < known[k].updated_at
         /\ known[k].updated_at = clock
         /\ \E q \in LP_RANGE : q # Val(last.potential) /\ known[k].price[q] # None

\* C27: set_price, and add_known when a price is given, fail when the
\* potential is outside 0..4, and after the failure the entries, the display
\* order and the pending list are as before the call.
C27_BadPotentialChangesNothing ==
    [][(CallRaised("set_price") \/ CallRaised("add_known"))
         => UNCHANGED <<known, known_keys, known_order, pending>>]_vars

\* C28: after every operation of the store has returned or raised, the
\* content of the price file is the state in memory.
C28_FileIsMemory == pc = "idle" => file = Complete(State)

\* the slot holds both a price and a comment that is not blank
HoldsBoth(entry, p) ==
    /\ entry.price[p] # None
    /\ entry.comment[p] # None
    /\ Strip(Val(entry.comment[p])) # <<>>

\* C29: in every state reached from the empty store, no slot of an entry
\* holds both a price and a comment that is not blank, and after set_price or
\* add_known has written a slot, the value displayed for the slot (the
\* comment if there is one, else the price) is the value written: the number
\* of set_price or of add_known, or for a text either the text as a comment
\* without a price or the number it stands for.
C29_OneValuePerSlot ==
    /\ [](\A k \in DOMAIN known : \A p \in LP_RANGE : ~HoldsBoth(known[k], p))
    /\ [][(CallReturned("set_price") \/ (CallReturned("add_known") /\ last'.price # None))
            => LET p == IF last'.potential = None THEN 0 ELSE Val(last'.potential)
                   shown == LpDisplayValue(known'[Val(last'.ret)], p)
                   raw == Val(last'.price)
               IN /\ shown.comment = None \/ shown.price = None
                  /\ raw.t = "num" => shown = [comment |-> None, price |-> Some(raw.n)]
                  /\ (raw.t # "num" /\ shown.comment # None)
                        => shown.comment = Some(Strip(raw.s))]_vars

\* a price was written over a slot of an entry that was there
C29_Witness ==
    /\ last.op = "set_price" /\ last.err = "" /\ last.potential = Some(LP_MAX)
    /\ \E k \in DOMAIN known :
         /\ last.ret = Some(k)
         /\ known[k].created_at < known[k].updated_at
         /\ known[k].updated_at = clock
         /\ LpDisplayValue(known[k], LP_MAX) = [comment |-> None, price |-> Some(70)]
         /\ \E r \in DOMAIN known \ {k} : known[r].comment[LP_MAX] # None

\* C26: when the migration has been run in place on a price file that the
\* store rejects as legacy, the store opens the file that the migration
\* left.
C26_MigratedFileOpens ==
    [][(/\ last.op = "migrate" /\ last.output = "input"
        /\ LegacyLayout(last.input)
        /\ last'.op = "open" /\ clock' # clock)
       => (last'.err = "" /\ pc' = "idle")]_vars

\* C30: at any time at most one listener loop holds registered hotkeys,
\* whatever the sequence of start, stop and update_settings.
C30_OneListener == Cardinality(Holding) <= 1

====
